---- MODULE Spec2Model ----
(***************************************************************************)
(* mplbasketball: court parameters, CourtSpec, the orientation transform   *)
(* and the zone membership masks.                                          *)
(*                                                                         *)
(* Numbers.  A Python float is an IEEE 754 binary64: a sign, a significand *)
(* of 53 bits and an exponent.  The significand is kept as a little-endian *)
(* sequence of 12-bit digits (TLC's integers are 32 bits wide).  Every     *)
(* arithmetic operation returns the float nearest to the exact result,     *)
(* ties to even, as Python and numpy do.  Overflow, underflow and          *)
(* subnormal numbers are not modelled: no magnitude of the library comes   *)
(* near them.                                                              *)
(***************************************************************************)
EXTENDS Integers, Sequences, FiniteSets, TLC

\* A magnitude is a little-endian sequence of digits of DigitBits bits, with
\* no leading zero digit; <<>> is zero.
DigitBits == 6 + 6

Base == 2 ^ DigitBits

\* The bits of the significand of a float64
Precision == 52 + 1

RECURSIVE MagTrim(_)
MagTrim(a) ==
    IF a = <<>> THEN a
    ELSE IF a[Len(a)] = 0 THEN MagTrim(SubSeq(a, 1, Len(a) - 1))
    ELSE a

Digit(a, i) == IF i <= Len(a) THEN a[i] ELSE 0

RECURSIVE MagCarry(_)
MagCarry(c) == IF c = 0 THEN <<>> ELSE <<c % Base>> \o MagCarry(c \div Base)

RECURSIVE MagAddFrom(_, _, _, _)
MagAddFrom(a, b, i, c) ==
    IF i > Len(a) /\ i > Len(b) THEN MagCarry(c)
    ELSE LET s == Digit(a, i) + Digit(b, i) + c
         IN  <<s % Base>> \o MagAddFrom(a, b, i + 1, s \div Base)

MagAdd(a, b) == MagAddFrom(a, b, 1, 0)

\* a - b for a >= b
RECURSIVE MagSubFrom(_, _, _, _)
MagSubFrom(a, b, i, br) ==
    IF i > Len(a) THEN <<>>
    ELSE LET d == Digit(a, i) - Digit(b, i) - br
         IN  IF d < 0 THEN <<d + Base>> \o MagSubFrom(a, b, i + 1, 1)
             ELSE <<d>> \o MagSubFrom(a, b, i + 1, 0)

MagSub(a, b) == MagTrim(MagSubFrom(a, b, 1, 0))

RECURSIVE MagCmpAt(_, _, _)
MagCmpAt(a, b, i) ==
    IF i = 0 THEN 0
    ELSE IF a[i] < b[i] THEN -1
    ELSE IF a[i] > b[i] THEN 1
    ELSE MagCmpAt(a, b, i - 1)

MagCmp(a, b) ==
    IF Len(a) < Len(b) THEN -1
    ELSE IF Len(a) > Len(b) THEN 1
    ELSE MagCmpAt(a, b, Len(a))

\* a * k for a small natural k (digit * k stays below 2^31)
RECURSIVE MagMulSmallFrom(_, _, _, _)
MagMulSmallFrom(a, k, i, c) ==
    IF i > Len(a) THEN MagCarry(c)
    ELSE LET s == a[i] * k + c
         IN  <<s % Base>> \o MagMulSmallFrom(a, k, i + 1, s \div Base)

MagMulSmall(a, k) == MagTrim(MagMulSmallFrom(a, k, 1, 0))

RECURSIVE MagMulFrom(_, _, _)
MagMulFrom(a, b, i) ==
    IF i > Len(b) THEN <<>>
    ELSE IF b[i] = 0 THEN <<0>> \o MagMulFrom(a, b, i + 1)
    ELSE MagAdd(MagMulSmall(a, b[i]), <<0>> \o MagMulFrom(a, b, i + 1))

MagMul(a, b) == MagTrim(MagMulFrom(a, b, 1))

\* a \div k for a small positive k, from the top digit down with remainder r
RECURSIVE MagDivSmallFrom(_, _, _, _)
MagDivSmallFrom(a, k, i, r) ==
    IF i = 0 THEN <<>>
    ELSE LET t == r * Base + a[i]
         IN  MagDivSmallFrom(a, k, i - 1, t % k) \o <<t \div k>>

MagDivSmall(a, k) == MagTrim(MagDivSmallFrom(a, k, Len(a), 0))

\* The number of bits of a digit and of a magnitude
RECURSIVE DigitLen(_)
DigitLen(d) == IF d = 0 THEN 0 ELSE 1 + DigitLen(d \div 2)

BitLen(a) ==
    IF a = <<>> THEN 0 ELSE DigitBits * (Len(a) - 1) + DigitLen(a[Len(a)])

Zeros(q) == [i \in 1..q |-> 0]

\* a * 2^k
ShiftLeft(a, k) ==
    IF a = <<>> \/ k = 0 THEN a
    ELSE Zeros(k \div DigitBits) \o MagMulSmall(a, 2 ^ (k % DigitBits))

\* a \div 2^k
ShiftRight(a, k) ==
    IF k \div DigitBits >= Len(a) THEN <<>>
    ELSE MagDivSmall(SubSeq(a, (k \div DigitBits) + 1, Len(a)), 2 ^ (k % DigitBits))

\* The bits top, followed by lower digits that are all zero or not, against
\* half: -1 below, 0 a tie, 1 above
TailCmpAt(top, half, lowzero) ==
    IF top < half THEN -1
    ELSE IF top > half THEN 1
    ELSE IF lowzero THEN 0
    ELSE 1

\* The bits below 2^k of a against half of 2^k, for 1 <= k < BitLen(a)
TailCmp(a, k) ==
    IF k % DigitBits = 0
    THEN TailCmpAt(a[k \div DigitBits], Base \div 2,
                   \A i \in 1..((k \div DigitBits) - 1) : a[i] = 0)
    ELSE TailCmpAt(a[(k \div DigitBits) + 1] % (2 ^ (k % DigitBits)),
                   2 ^ ((k % DigitBits) - 1),
                   \A i \in 1..(k \div DigitBits) : a[i] = 0)

\* a / 2^k rounded to the nearest integer, ties to the even one (k >= 1)
RoundedQuotient(q, tail) ==
    IF tail > 0 \/ (tail = 0 /\ q # <<>> /\ q[1] % 2 = 1) THEN MagAdd(q, <<1>>)
    ELSE q

RoundShift(a, k) == RoundedQuotient(ShiftRight(a, k), TailCmp(a, k))

\* A float64: sign, significand of exactly Precision bits and exponent, of
\* value mag * 2^exp; zero is never negative, so equal floats are equal
\* values (Python: -0.0 == 0.0).
Flt(neg, mag, exp) == [neg |-> neg, mag |-> mag, exp |-> exp]

Zero == Flt(FALSE, <<>>, 0)

\* A magnitude rounded to Precision bits may have come to Precision + 1
NormalizeRounded(neg, rounded, exp) ==
    IF Len(rounded) * DigitBits > Precision /\ BitLen(rounded) > Precision
    THEN Flt(neg, ShiftRight(rounded, 1), exp + 1)
    ELSE Flt(neg, rounded, exp)

\* The float nearest to mag * 2^exp, for a magnitude of len bits
NormalizeLen(neg, mag, exp, len) ==
    IF len = 0 THEN Zero
    ELSE IF len <= Precision
    THEN Flt(neg, ShiftLeft(mag, Precision - len), exp - (Precision - len))
    ELSE NormalizeRounded(neg, RoundShift(mag, len - Precision), exp + (len - Precision))

Normalize(neg, mag, exp) == NormalizeLen(neg, mag, exp, BitLen(mag))

Abs(n) == IF n < 0 THEN -n ELSE n

Neg(a) == IF a.mag = <<>> THEN a ELSE Flt(~a.neg, a.mag, a.exp)

\* The sum of two signed magnitudes at the same exponent
AddMag(aneg, amag, bneg, bmag, exp) ==
    IF aneg = bneg THEN Normalize(aneg, MagAdd(amag, bmag), exp)
    ELSE IF MagCmp(amag, bmag) >= 0 THEN Normalize(aneg, MagSub(amag, bmag), exp)
    ELSE Normalize(bneg, MagSub(bmag, amag), exp)

\* hi + lo for hi.exp >= lo.exp: a term below a quarter of the last place of
\* the other does not change the rounded sum
AddAligned(hi, lo) ==
    IF hi.exp - lo.exp > Precision + 2 THEN hi
    ELSE AddMag(hi.neg, ShiftLeft(hi.mag, hi.exp - lo.exp), lo.neg, lo.mag, lo.exp)

Add(a, b) ==
    IF a.mag = <<>> THEN b
    ELSE IF b.mag = <<>> THEN a
    ELSE IF a.exp >= b.exp THEN AddAligned(a, b)
    ELSE AddAligned(b, a)

Sub(a, b) == Add(a, Neg(b))

\* a * b
Mul(a, b) == Normalize(a.neg # b.neg, MagMul(a.mag, b.mag), a.exp + b.exp)

\* a ** 2, r * r
Sq(a) == Mul(a, a)

\* k * a for a small natural k
MulInt(k, a) == Normalize(a.neg, MagMulSmall(a.mag, k), a.exp)

\* The quotient q of mag * 2^(2 * DigitBits) by k, with one more bit that
\* says whether the division left a remainder
QuotientSticky(q, mag, k) ==
    IF MagMulSmall(q, k) = Zeros(2) \o mag THEN MagMulSmall(q, 2)
    ELSE MagAdd(MagMulSmall(q, 2), <<1>>)

\* a / k for a small positive integer k
DivInt(a, k) ==
    IF a.mag = <<>> THEN a
    ELSE Normalize(a.neg,
                   QuotientSticky(MagDivSmall(Zeros(2) \o a.mag, k), a.mag, k),
                   a.exp - 2 * DigitBits - 1)

\* The float n / d, for small integers n and d > 0: a literal or a quotient
\* of two integers
Num(n, d) == DivInt(Normalize(n < 0, MagCarry(Abs(n)), 0), d)

\* Magnitudes of two floats of the same sign
CmpAbs(a, b) ==
    IF a.mag = <<>> THEN (IF b.mag = <<>> THEN 0 ELSE -1)
    ELSE IF b.mag = <<>> THEN 1
    ELSE IF a.exp < b.exp THEN -1
    ELSE IF a.exp > b.exp THEN 1
    ELSE MagCmp(a.mag, b.mag)

Cmp(a, b) ==
    IF a.neg /\ ~b.neg THEN -1
    ELSE IF ~a.neg /\ b.neg THEN 1
    ELSE IF a.neg THEN CmpAbs(b, a)
    ELSE CmpAbs(a, b)

Lt(a, b) == Cmp(a, b) < 0

\* Mutant of Le: the strict comparison
Le_Strict(a, b) == Cmp(a, b) < 0

Le(a, b) == Cmp(a, b) <= 0

Gt(a, b) == Cmp(a, b) > 0

Ge(a, b) == Cmp(a, b) >= 0

(***************************************************************************)
(* court_params.py: the per-league tables (in feet) and their conversion.  *)
(* A table value is a float (Scalar) or a list of two floats (List).       *)
(***************************************************************************)
Scalar(v) == [list |-> FALSE, v |-> v]

List(s) == [list |-> TRUE, v |-> s]

nba_court_parameters ==
    [ court_dims |-> List(<<Num(94, 1), Num(50, 1)>>),
      hoop_distance_from_edge |-> Scalar(Num(525, 100)),
      hoop_radius |-> Scalar(Num(75, 100)),
      backboard_distance_from_edge |-> Scalar(Num(4, 1)),
      backboard_width |-> Scalar(Num(6, 1)),
      backboard_height |-> Scalar(Num(35, 10)),
      backboard_inner_rect_width |-> Scalar(Num(2, 1)),
      backboard_inner_rect_height |-> Scalar(Num(15, 10)),
      backboard_inner_rect_from_bottom |-> Scalar(Num(1, 1)),
      charge_circle_radius |-> Scalar(Num(4, 1)),
      charge_circle_side_length |-> Scalar(Num(3, 1)),
      inbound_line_distance_from_edge |-> Scalar(Num(28, 1)),
      inbound_line_length |-> Scalar(Num(3, 1)),
      outbound_line_distance_from_center |-> Scalar(Add(Num(4, 1), DivInt(Num(1, 1), 12))),
      outbound_line_length |-> Scalar(Num(4, 1)),
      outer_paint_dims |-> List(<<Add(Num(18, 1), DivInt(Num(5, 1), 6)), Sub(Num(16, 1), DivInt(Num(1, 1), 3))>>),
      inner_paint_dims |-> List(<<Add(Num(18, 1), DivInt(Num(5, 1), 6)), Sub(Num(12, 1), DivInt(Num(1, 1), 3))>>),
      outer_circle_radius |-> Scalar(Num(6, 1)),
      inner_circle_radius |-> Scalar(Num(2, 1)),
      three_point_arc_angle |-> Scalar(Num(6813, 100)),
      three_point_arc_diameter |-> Scalar(Num(475, 10)),
      three_point_line_length |-> Scalar(Num(14, 1)),
      three_point_side_width |-> Scalar(Num(3, 1)),
      hoop_height |-> Scalar(Num(10, 1)) ]

wnba_court_parameters ==
    [ court_dims |-> List(<<Num(94, 1), Num(50, 1)>>),
      hoop_distance_from_edge |-> Scalar(Num(525, 100)),
      hoop_radius |-> Scalar(Num(75, 100)),
      backboard_distance_from_edge |-> Scalar(Num(4, 1)),
      backboard_width |-> Scalar(Num(6, 1)),
      backboard_height |-> Scalar(Num(35, 10)),
      backboard_inner_rect_width |-> Scalar(Num(2, 1)),
      backboard_inner_rect_height |-> Scalar(Num(15, 10)),
      backboard_inner_rect_from_bottom |-> Scalar(Num(1, 1)),
      charge_circle_radius |-> Scalar(Num(4, 1)),
      charge_circle_side_length |-> Scalar(Num(3, 1)),
      inbound_line_distance_from_edge |-> Scalar(Num(28, 1)),
      inbound_line_length |-> Scalar(Num(3, 1)),
      outbound_line_distance_from_center |-> Scalar(Add(Num(4, 1), DivInt(Num(1, 1), 12))),
      outbound_line_length |-> Scalar(Num(4, 1)),
      outer_paint_dims |-> List(<<Add(Num(18, 1), DivInt(Num(5, 1), 6)), Sub(Num(16, 1), DivInt(Num(1, 1), 3))>>),
      inner_paint_dims |-> List(<<Add(Num(18, 1), DivInt(Num(5, 1), 6)), Sub(Num(12, 1), DivInt(Num(1, 1), 3))>>),
      outer_circle_radius |-> Scalar(Num(6, 1)),
      inner_circle_radius |-> Scalar(Num(2, 1)),
      \* 83.51692630710276
      three_point_arc_angle |-> Scalar(Flt(FALSE, <<3251, 317, 1362, 3601, 20>>, -46)),
      three_point_arc_diameter |-> Scalar(Num(44365, 1000)),
      three_point_line_length |-> Scalar(Num(775, 100)),
      three_point_side_width |-> Scalar(Num(3, 1)),
      hoop_height |-> Scalar(Num(10, 1)) ]

ncaa_court_parameters ==
    [ court_dims |-> List(<<Num(94, 1), Num(50, 1)>>),
      hoop_distance_from_edge |-> Scalar(Num(525, 100)),
      hoop_radius |-> Scalar(Num(75, 100)),
      backboard_distance_from_edge |-> Scalar(Num(4, 1)),
      backboard_width |-> Scalar(Num(6, 1)),
      backboard_height |-> Scalar(Num(35, 10)),
      backboard_inner_rect_width |-> Scalar(Num(2, 1)),
      backboard_inner_rect_height |-> Scalar(Num(15, 10)),
      backboard_inner_rect_from_bottom |-> Scalar(Num(1, 1)),
      charge_circle_radius |-> Scalar(Num(4, 1)),
      charge_circle_side_length |-> Scalar(Num(3, 1)),
      inbound_line_distance_from_edge |-> Scalar(Num(28, 1)),
      inbound_line_length |-> Scalar(Num(3, 1)),
      outbound_line_distance_from_center |-> Scalar(Add(Num(4, 1), DivInt(Num(1, 1), 12))),
      outbound_line_length |-> Scalar(Num(4, 1)),
      outer_paint_dims |-> List(<<Add(Num(18, 1), DivInt(Num(5, 1), 6)), Sub(Num(12, 1), DivInt(Num(1, 1), 3))>>),
      inner_paint_dims |-> List(<<Add(Num(18, 1), DivInt(Num(5, 1), 6)), Sub(Num(12, 1), DivInt(Num(1, 1), 3))>>),
      outer_circle_radius |-> Scalar(Num(6, 1)),
      inner_circle_radius |-> Scalar(Num(6, 1)),
      three_point_arc_angle |-> Scalar(Num(7895, 100)),
      three_point_arc_diameter |-> Scalar(Num(44218, 1000)),
      three_point_line_length |-> Scalar(Num(94, 10)),
      three_point_side_width |-> Scalar(Num(334375, 100000)),
      hoop_height |-> Scalar(Num(10, 1)) ]

fiba_court_parameters ==
    [ court_dims |-> List(<<Num(918635, 10000), Num(492126, 10000)>>),
      hoop_distance_from_edge |-> Scalar(Num(5167, 1000)),
      hoop_radius |-> Scalar(Num(75, 100)),
      backboard_distance_from_edge |-> Scalar(Num(3937, 1000)),
      backboard_width |-> Scalar(Num(6, 1)),
      backboard_height |-> Scalar(Num(35, 10)),
      backboard_inner_rect_width |-> Scalar(Num(2, 1)),
      backboard_inner_rect_height |-> Scalar(Num(15, 10)),
      backboard_inner_rect_from_bottom |-> Scalar(Num(1, 1)),
      charge_circle_radius |-> Scalar(Num(394, 100)),
      charge_circle_side_length |-> Scalar(Num(3, 1)),
      inbound_line_distance_from_edge |-> Scalar(Num(2732, 100)),
      inbound_line_length |-> Scalar(Num(3, 1)),
      outbound_line_distance_from_center |-> Scalar(Add(Num(39685, 10000), DivInt(Num(1, 1), 12))),
      outbound_line_length |-> Scalar(Num(4, 1)),
      outer_paint_dims |-> List(<<Add(Num(180289, 10000), DivInt(Num(5, 1), 6)), Sub(Num(1608, 100), DivInt(Num(1, 1), 3))>>),
      inner_paint_dims |-> List(<<Add(Num(180289, 10000), DivInt(Num(5, 1), 6)), Sub(Num(12, 1), DivInt(Num(1, 1), 3))>>),
      outer_circle_radius |-> Scalar(Num(590551, 100000)),
      inner_circle_radius |-> Scalar(Num(590551, 100000)),
      three_point_arc_angle |-> Scalar(Num(789, 10)),
      three_point_arc_diameter |-> Scalar(Num(44218, 1000)),
      three_point_line_length |-> Scalar(Num(94, 10)),
      three_point_side_width |-> Scalar(Num(2953, 1000)),
      hoop_height |-> Scalar(Num(10, 1)) ]

\* key.split("_") for every key of the tables
KeyWords ==
    [ court_dims |-> <<"court", "dims">>,
      hoop_distance_from_edge |-> <<"hoop", "distance", "from", "edge">>,
      hoop_radius |-> <<"hoop", "radius">>,
      backboard_distance_from_edge |-> <<"backboard", "distance", "from", "edge">>,
      backboard_width |-> <<"backboard", "width">>,
      backboard_height |-> <<"backboard", "height">>,
      backboard_inner_rect_width |-> <<"backboard", "inner", "rect", "width">>,
      backboard_inner_rect_height |-> <<"backboard", "inner", "rect", "height">>,
      backboard_inner_rect_from_bottom |-> <<"backboard", "inner", "rect", "from", "bottom">>,
      charge_circle_radius |-> <<"charge", "circle", "radius">>,
      charge_circle_side_length |-> <<"charge", "circle", "side", "length">>,
      inbound_line_distance_from_edge |-> <<"inbound", "line", "distance", "from", "edge">>,
      inbound_line_length |-> <<"inbound", "line", "length">>,
      outbound_line_distance_from_center |-> <<"outbound", "line", "distance", "from", "center">>,
      outbound_line_length |-> <<"outbound", "line", "length">>,
      outer_paint_dims |-> <<"outer", "paint", "dims">>,
      inner_paint_dims |-> <<"inner", "paint", "dims">>,
      outer_circle_radius |-> <<"outer", "circle", "radius">>,
      inner_circle_radius |-> <<"inner", "circle", "radius">>,
      three_point_arc_angle |-> <<"three", "point", "arc", "angle">>,
      three_point_arc_diameter |-> <<"three", "point", "arc", "diameter">>,
      three_point_line_length |-> <<"three", "point", "line", "length">>,
      three_point_side_width |-> <<"three", "point", "side", "width">>,
      hoop_height |-> <<"hoop", "height">> ]

CourtTypes == {"nba", "wnba", "ncaa", "fiba"}

UnitsDomain == {"m", "ft"}

Origins == {"center", "top-left", "bottom-left", "top-right", "bottom-right"}

Orientations == {"h", "v"}

InSeq(w, s) == \E i \in DOMAIN s : s[i] = w

\* A call of _get_court_params_in_desired_units raises AssertionError
ParamsRaises(court_type, desired_units) ==
    court_type \notin CourtTypes \/ desired_units \notin UnitsDomain

ConversionFactor(desired_units) ==
    IF desired_units = "m" THEN Num(3048, 10000) ELSE Num(1, 1)

CourtParamsTable(court_type) ==
    IF court_type = "nba" THEN nba_court_parameters
    ELSE IF court_type = "wnba" THEN wnba_court_parameters
    ELSE IF court_type = "ncaa" THEN ncaa_court_parameters
    ELSE fiba_court_parameters

\* The module-level dictionaries nba_court_parameters, wnba_court_parameters,
\* ncaa_court_parameters and fiba_court_parameters as the module defines them
CourtParamsTables == [court_type \in CourtTypes |-> CourtParamsTable(court_type)]

\* Mutant of ConvertValue: the pair-valued entries are left in feet
ConvertValue_ScalarsOnly(key, value, conversion_factor) ==
    IF ~InSeq("angle", KeyWords[key]) /\ ~value.list
    THEN Scalar(Mul(value.v, conversion_factor))
    ELSE value

\* One converted entry of the new mapping
ConvertValue(key, value, conversion_factor) ==
    IF ~InSeq("angle", KeyWords[key])
    THEN IF value.list
         THEN List([i \in DOMAIN value.v |-> Mul(value.v[i], conversion_factor)])
         ELSE Scalar(Mul(value.v, conversion_factor))
    ELSE value

\* The loop over court_params.items() building new_court_params
ConvertParams(court_params, conversion_factor) ==
    [key \in DOMAIN court_params |->
        ConvertValue(key, court_params[key], conversion_factor)]

\* The four module-level dictionaries as they are now
VARIABLE tables

\* _get_court_params_in_desired_units, for arguments it accepts: the new
\* mapping built from the dictionary of the league
GetCourtParams(court_type, desired_units) ==
    ConvertParams(tables[court_type], ConversionFactor(desired_units))

\* The mapping the lookup builds from the dictionaries the module defines,
\* for each pair of arguments it accepts
NewCourtParams ==
    [court_type \in CourtTypes |->
        [desired_units \in UnitsDomain |->
            ConvertParams(CourtParamsTable(court_type), ConversionFactor(desired_units))]]

(***************************************************************************)
(* zones.py: CourtSpec, a frozen dataclass of four fields with no          *)
(* validation of its own, and its derived properties.                      *)
(***************************************************************************)
CourtSpec(court_type, units, origin, orientation) ==
    [court_type |-> court_type, units |-> units,
     origin |-> origin, orientation |-> orientation]

DefaultCourtSpec == CourtSpec("nba", "ft", "top-left", "h")

Pt(px, py) == <<px, py>>

SpecParams(spec) == GetCourtParams(spec.court_type, spec.units)

\* (params["court_dims"][0], params["court_dims"][1])
ParamsDims(params) == <<params["court_dims"].v[1], params["court_dims"].v[2]>>

SpecDims(spec) == ParamsDims(SpecParams(spec))

CenterFromOriginRaises(origin) == origin \notin Origins

\* Mutant of CenterFromOrigin: top and bottom exchanged
CenterFromOrigin_TopBottom(origin, dims) ==
    LET w == dims[1]
        h == dims[2]
    IN  IF origin = "center" THEN Pt(Zero, Zero)
        ELSE IF origin = "top-left" THEN Pt(DivInt(w, 2), DivInt(h, 2))
        ELSE IF origin = "bottom-left" THEN Pt(DivInt(w, 2), DivInt(Neg(h), 2))
        ELSE IF origin = "top-right" THEN Pt(DivInt(Neg(w), 2), DivInt(h, 2))
        ELSE Pt(DivInt(Neg(w), 2), DivInt(Neg(h), 2))

\* _center_from_origin, for an origin it accepts
CenterFromOrigin(origin, dims) ==
    LET w == dims[1]
        h == dims[2]
    IN  IF origin = "center" THEN Pt(Zero, Zero)
        ELSE IF origin = "top-left" THEN Pt(DivInt(w, 2), DivInt(Neg(h), 2))
        ELSE IF origin = "bottom-left" THEN Pt(DivInt(w, 2), DivInt(h, 2))
        ELSE IF origin = "top-right" THEN Pt(DivInt(Neg(w), 2), DivInt(Neg(h), 2))
        ELSE Pt(DivInt(Neg(w), 2), DivInt(h, 2))

H2VPoint(px, py) == Pt(Neg(py), px)

\* _h2v_point(c) of a center unless the orientation is "h"
OrientCenter(c, orientation) ==
    IF orientation = "h" THEN c ELSE Pt(Neg(c[2]), c[1])

\* Mutant of SpecCenter: the center left in the horizontal frame
SpecCenter_Unrotated(spec) == CenterFromOrigin(spec.origin, SpecDims(spec))

SpecCenter(spec) ==
    OrientCenter(CenterFromOrigin(spec.origin, SpecDims(spec)), spec.orientation)

\* Mutant of HoopCentersAt: both hoops measured from the left baseline
HoopCentersAt_SameBaseline(params, court_x, c, orientation) ==
    LET left_x == Add(Sub(c[1], DivInt(court_x, 2)), params["hoop_distance_from_edge"].v)
        right_x == Add(Add(c[1], DivInt(court_x, 2)), params["hoop_distance_from_edge"].v)
    IN  IF orientation = "v"
        THEN <<H2VPoint(left_x, c[2]), H2VPoint(right_x, c[2])>>
        ELSE <<Pt(left_x, c[2]), Pt(right_x, c[2])>>

\* The two hoops from the parameters, the court length and the center c of
\* the horizontal frame
HoopCentersAt(params, court_x, c, orientation) ==
    LET left_x == Add(Sub(c[1], DivInt(court_x, 2)), params["hoop_distance_from_edge"].v)
        right_x == Sub(Add(c[1], DivInt(court_x, 2)), params["hoop_distance_from_edge"].v)
    IN  IF orientation = "v"
        THEN <<H2VPoint(left_x, c[2]), H2VPoint(right_x, c[2])>>
        ELSE <<Pt(left_x, c[2]), Pt(right_x, c[2])>>

\* hoop_centers of a CourtSpec whose parameters are params
ParamsHoopCenters(params, origin, orientation) ==
    HoopCentersAt(params, ParamsDims(params)[1],
                  CenterFromOrigin(origin, ParamsDims(params)), orientation)

SpecHoopCenters(spec) ==
    ParamsHoopCenters(SpecParams(spec), spec.origin, spec.orientation)

\* The exception a CourtSpec raises when its derived geometry is first read:
\* params asserts the league and the units, _center_from_origin rejects the
\* origin; the orientation is never checked.
SpecError(spec) ==
    IF ParamsRaises(spec.court_type, spec.units) THEN "AssertionError"
    ELSE IF CenterFromOriginRaises(spec.origin) THEN "ValueError"
    ELSE "none"

\* Elementwise helpers over arrays (sequences of floats)
NegArr(a) == [i \in DOMAIN a |-> Neg(a[i])]

\* Mutant of H2VPoints: the rotation turned the other way
H2VPoints_Inverse(ax, ay) == [x |-> ay, y |-> NegArr(ax)]

H2VPoints(ax, ay) == [x |-> NegArr(ay), y |-> ax]

\* Mutant of V2HPoints: the forward rotation in place of the inverse
V2HPoints_Forward(ax, ay) == [x |-> NegArr(ay), y |-> ax]

V2HPoints(ax, ay) == [x |-> ay, y |-> NegArr(ax)]

(***************************************************************************)
(* utils.py: transform.  Arrays are sequences of floats.  The caller's     *)
(* arrays are objects the function can write into: an operator returns     *)
(* the contents of the caller's arrays after the call (x, y), the arrays   *)
(* it returns (rx, ry), whether the returned arrays are the caller's own   *)
(* objects (aliased), and the exception raised, if any (err).              *)
(***************************************************************************)
OrientationTokens == {"h", "hl", "hr", "v", "vu", "vd"}

\* fr[0] and to[0]
Family(token) == IF token \in {"h", "hl", "hr"} THEN "h" ELSE "v"

\* Mutant of ValidateArgs: the checks come after the fr == to shortcut
ValidateArgs_AfterShortcut(fr, to, origin, court_type) ==
    IF fr = to THEN "none"
    ELSE IF fr \notin OrientationTokens THEN "ValueError"
    ELSE IF to \notin OrientationTokens THEN "ValueError"
    ELSE IF origin \notin Origins THEN "ValueError"
    ELSE IF court_type \notin CourtTypes THEN "ValueError"
    ELSE "none"

\* The four checks at the head of transform, in order
ValidateArgs(fr, to, origin, court_type) ==
    IF fr \notin OrientationTokens THEN "ValueError"
    ELSE IF to \notin OrientationTokens THEN "ValueError"
    ELSE IF origin \notin Origins THEN "ValueError"
    ELSE IF court_type \notin CourtTypes THEN "ValueError"
    ELSE "none"

\* The origins dictionary of transform for the court dimensions court_dims
OriginsTable(origin, court_dims) ==
    IF origin = "center" THEN Pt(Zero, Zero)
    ELSE IF origin = "top-left"
         THEN Pt(DivInt(court_dims[1], 2), DivInt(Neg(court_dims[2]), 2))
    ELSE IF origin = "bottom-left"
         THEN Pt(DivInt(court_dims[1], 2), DivInt(court_dims[2], 2))
    ELSE IF origin = "top-right"
         THEN Pt(DivInt(Neg(court_dims[1]), 2), DivInt(Neg(court_dims[2]), 2))
    ELSE Pt(DivInt(Neg(court_dims[1]), 2), DivInt(court_dims[2], 2))

\* Mutant of CenterCourt: the court dimensions taken in meters
CenterCourt_Meters(origin, court_type) ==
    OriginsTable(origin, GetCourtParams(court_type, "m")["court_dims"].v)

\* center_court = origins[origin], from the court dimensions in feet
CenterCourt(origin, court_type) ==
    OriginsTable(origin, GetCourtParams(court_type, "ft")["court_dims"].v)

\* Mutant of MaskLt: a <= c
MaskLt_Inclusive(a, c) == [i \in DOMAIN a |-> Le(a[i], c)]

\* a < c and a > c, elementwise: a boolean array as long as a
MaskLt(a, c) == [i \in DOMAIN a |-> Lt(a[i], c)]

MaskGt(a, c) == [i \in DOMAIN a |-> Gt(a[i], c)]

\* numpy accepts a[mask] only for a mask as long as a (IndexError otherwise)
IndexOk(a, mask) == Len(a) = Len(mask)

\* a[mask] = k - a[mask]
ReflectWhere(a, mask, k) ==
    [i \in DOMAIN a |-> IF mask[i] THEN Sub(k, a[i]) ELSE a[i]]

Outcome(err, ax, ay) == [err |-> err, x |-> ax, y |-> ay]

\* The two statements ax[m1] = kx - ax[m1]; ay[m2] = ky - ay[m2] in order:
\* the first that raises leaves what was written before it.
ReflectBoth(ax, ay, m1, kx, m2, ky) ==
    IF ~IndexOk(ax, m1) THEN Outcome("IndexError", ax, ay)
    ELSE IF ~IndexOk(ay, m2) THEN Outcome("IndexError", ReflectWhere(ax, m1, kx), ay)
    ELSE Outcome("none", ReflectWhere(ax, m1, kx), ReflectWhere(ay, m2, ky))

\* fr[0] == "h" and to[0] == "h": the masks come from the copy x_t
SameFamilyH(ax, ay, fr, to, c) ==
    LET x_t == ax
    IN  IF (fr = "h" \/ fr = "hl") /\ to = "hr"
        THEN ReflectBoth(ax, ay, MaskLt(x_t, c[1]), MulInt(2, c[1]),
                         MaskLt(x_t, c[1]), MulInt(2, c[2]))
        ELSE IF (fr = "h" \/ fr = "hr") /\ to = "hl"
        THEN ReflectBoth(ax, ay, MaskGt(x_t, c[1]), MulInt(2, c[1]),
                         MaskGt(x_t, c[1]), MulInt(2, c[2]))
        ELSE Outcome("none", ax, ay)

\* fr[0] == "v" and to[0] == "v": the first guard names "vl", which is no
\* token; the masks of the "vd" branch read y itself, before y is written
SameFamilyV(ax, ay, fr, to, c) ==
    LET y_t == ay
    IN  IF (fr = "v" \/ fr = "vl") /\ to = "vu"
        THEN ReflectBoth(ax, ay, MaskLt(y_t, c[1]), Neg(MulInt(2, c[2])),
                         MaskLt(y_t, c[1]), MulInt(2, c[1]))
        ELSE IF (fr = "v" \/ fr = "vu") /\ to = "vd"
        THEN ReflectBoth(ax, ay, MaskGt(ay, c[1]), Neg(MulInt(2, c[2])),
                         MaskGt(ay, c[1]), MulInt(2, c[1]))
        ELSE Outcome("none", ax, ay)

\* Mutant of RotateHV: the rotation turned the other way
RotateHV_Inverse(x_t, y_t) == [x |-> y_t, y |-> NegArr(x_t)]

\* x = -y_t; y = x_t
RotateHV(x_t, y_t) == [x |-> NegArr(y_t), y |-> x_t]

\* Mutant of RotateVH: the forward rotation used in both directions
RotateVH_Forward(x_t, y_t) == [x |-> NegArr(y_t), y |-> x_t]

\* x = y_t; y = -x_t
RotateVH(x_t, y_t) == [x |-> y_t, y |-> NegArr(x_t)]

\* fr[0] == "h" and to[0] == "v": both masks are read from y, which the
\* first statement leaves alone
CrossToV(x_t, y_t, to, c) ==
    LET r == RotateHV(x_t, y_t)
    IN  IF to = "vu"
        THEN ReflectBoth(r.x, r.y, MaskLt(r.y, c[1]), Neg(MulInt(2, c[2])),
                         MaskLt(r.y, c[1]), MulInt(2, c[1]))
        ELSE IF to = "vd"
        THEN ReflectBoth(r.x, r.y, MaskGt(r.y, c[1]), Neg(MulInt(2, c[2])),
                         MaskGt(r.y, c[1]), MulInt(2, c[1]))
        ELSE Outcome("none", r.x, r.y)

\* fr[0] == "v" and to[0] == "h": both masks are read from x, and the second
\* one after the first statement has written x
CrossToH(x_t, y_t, to, c) ==
    LET r == RotateVH(x_t, y_t)
    IN  IF to = "hr"
        THEN LET m1 == MaskLt(r.x, c[1])
                 x1 == IF IndexOk(r.x, m1) THEN ReflectWhere(r.x, m1, MulInt(2, c[1]))
                       ELSE r.x
             IN  ReflectBoth(r.x, r.y, m1, MulInt(2, c[1]),
                             MaskLt(x1, c[1]), MulInt(2, c[2]))
        ELSE IF to = "hl"
        THEN LET m1 == MaskGt(r.x, c[1])
                 x1 == IF IndexOk(r.x, m1) THEN ReflectWhere(r.x, m1, MulInt(2, c[1]))
                       ELSE r.x
             IN  ReflectBoth(r.x, r.y, m1, MulInt(2, c[1]),
                             MaskGt(x1, c[1]), MulInt(2, c[2]))
        ELSE Outcome("none", r.x, r.y)

\* What one call leaves behind
Result(err, ax, ay, bx, by, aliased) ==
    [err |-> err, x |-> ax, y |-> ay, rx |-> bx, ry |-> by, aliased |-> aliased]

\* Mutant of SameOrientation: return y, x
SameOrientation_Swapped(ax, ay) == Result("none", ax, ay, ay, ax, TRUE)

\* if fr == to: return x, y
SameOrientation(ax, ay) == Result("none", ax, ay, ax, ay, TRUE)

\* return x, y after a branch that wrote into the caller's arrays
ReturnInPlace(o) ==
    IF o.err = "none" THEN Result("none", o.x, o.y, o.x, o.y, TRUE)
    ELSE Result(o.err, o.x, o.y, <<>>, <<>>, FALSE)

\* return x, y after a branch that bound x and y to new arrays
ReturnFresh(o, ax, ay) ==
    IF o.err = "none" THEN Result("none", ax, ay, o.x, o.y, FALSE)
    ELSE Result(o.err, ax, ay, <<>>, <<>>, FALSE)

\* The four branches of transform on fr[0] and to[0]
TransformBranches(ax, ay, fr, to, center_court) ==
    IF Family(fr) = "h" /\ Family(to) = "h"
    THEN ReturnInPlace(SameFamilyH(ax, ay, fr, to, center_court))
    ELSE IF Family(fr) = "v" /\ Family(to) = "v"
    THEN ReturnInPlace(SameFamilyV(ax, ay, fr, to, center_court))
    ELSE IF Family(fr) = "h" /\ Family(to) = "v"
    THEN ReturnFresh(CrossToV(ax, ay, to, center_court), ax, ay)
    ELSE ReturnFresh(CrossToH(ax, ay, to, center_court), ax, ay)

\* transform(x, y, fr, to, origin, court_type) on the caller's arrays ax, ay
Transform(ax, ay, fr, to, origin, court_type) ==
    IF ValidateArgs(fr, to, origin, court_type) # "none"
    THEN Result(ValidateArgs(fr, to, origin, court_type), ax, ay, <<>>, <<>>, FALSE)
    ELSE IF fr = to THEN SameOrientation(ax, ay)
    ELSE TransformBranches(ax, ay, fr, to, CenterCourt(origin, court_type))

(***************************************************************************)
(* zones.py: the membership masks.  Each brings the points to the          *)
(* horizontal frame, reads the geometry of the horizontal CourtSpec and    *)
(* evaluates its predicate elementwise, numpy broadcasting x against y.    *)
(***************************************************************************)
AbsNum(a) == Flt(FALSE, a.mag, a.exp)

\* spec_h of a mask: CourtSpec(court_type, units, origin, "h") for a vertical
\* spec, the spec itself otherwise
HorizontalSpec(spec) ==
    IF spec.orientation = "v"
    THEN CourtSpec(spec.court_type, spec.units, spec.origin, "h")
    ELSE spec

\* xh, yh of a mask
HorizontalPoints(ax, ay, spec) ==
    IF spec.orientation = "v" THEN V2HPoints(ax, ay) ELSE [x |-> ax, y |-> ay]

\* side == "l" / side == "r" / else
PickSide(side, left, right) ==
    IF side = "l" THEN left ELSE IF side = "r" THEN right ELSE left \/ right

\* numpy broadcasting of two 1-d arrays of lengths n and m: equal lengths, or
\* one of them 1 (ValueError otherwise)
Broadcastable(n, m) == n = m \/ n = 1 \/ m = 1

BroadcastLen(n, m) == IF n = 1 THEN m ELSE n

BroadcastAt(a, i) == IF Len(a) = 1 THEN a[1] ELSE a[i]

BroadcastDomain(xh, yh) == 1..BroadcastLen(Len(xh), Len(yh))

\* The body of restricted_area_mask on broadcastable arrays of the
\* horizontal frame, for the parameters p and the hoops of spec_h
RestrictedAreaBody(xh, yh, p, hoops, side) ==
    LET r == p["charge_circle_radius"].v
        lx == hoops[1][1]
        ly == hoops[1][2]
        rhx == hoops[2][1]
        rhy == hoops[2][2]
    IN  [i \in BroadcastDomain(xh, yh) |->
            LET px == BroadcastAt(xh, i)
                py == BroadcastAt(yh, i)
                dl2 == Add(Sq(Sub(px, lx)), Sq(Sub(py, ly)))
                dr2 == Add(Sq(Sub(px, rhx)), Sq(Sub(py, rhy)))
                left_mask == Le(dl2, Sq(r)) /\ Ge(px, lx)
                right_mask == Le(dr2, Sq(r)) /\ Le(px, rhx)
            IN  PickSide(side, left_mask, right_mask)]

\* Mutant of PaintBody: the upper bound taken from the lower bound, with
\* half the height
PaintBody_HalfHeight(xh, yh, p, c, side) ==
    LET court_x == ParamsDims(p)[1]
        w == p["outer_paint_dims"].v[1]
        h == p["outer_paint_dims"].v[2]
        xl0 == Sub(c[1], DivInt(court_x, 2))
        xl1 == Add(xl0, w)
        yl0 == Sub(c[2], DivInt(h, 2))
        yl1 == Add(yl0, DivInt(h, 2))
        xr1 == Add(c[1], DivInt(court_x, 2))
        xr0 == Sub(xr1, w)
        yr0 == yl0
        yr1 == yl1
    IN  [i \in BroadcastDomain(xh, yh) |->
            LET px == BroadcastAt(xh, i)
                py == BroadcastAt(yh, i)
                left == Ge(px, xl0) /\ Le(px, xl1) /\ Ge(py, yl0) /\ Le(py, yl1)
                right == Ge(px, xr0) /\ Le(px, xr1) /\ Ge(py, yr0) /\ Le(py, yr1)
            IN  PickSide(side, left, right)]

\* The body of paint_mask, for the parameters p and the center c of spec_h
PaintBody(xh, yh, p, c, side) ==
    LET court_x == ParamsDims(p)[1]
        w == p["outer_paint_dims"].v[1]
        h == p["outer_paint_dims"].v[2]
        xl0 == Sub(c[1], DivInt(court_x, 2))
        xl1 == Add(xl0, w)
        yl0 == Sub(c[2], DivInt(h, 2))
        yl1 == Add(c[2], DivInt(h, 2))
        xr1 == Add(c[1], DivInt(court_x, 2))
        xr0 == Sub(xr1, w)
        yr0 == yl0
        yr1 == yl1
    IN  [i \in BroadcastDomain(xh, yh) |->
            LET px == BroadcastAt(xh, i)
                py == BroadcastAt(yh, i)
                left == Ge(px, xl0) /\ Le(px, xl1) /\ Ge(py, yl0) /\ Le(py, yl1)
                right == Ge(px, xr0) /\ Le(px, xr1) /\ Ge(py, yr0) /\ Le(py, yr1)
            IN  PickSide(side, left, right)]

\* y in the top or the bottom band of corner_three_mask
CornerBands(py, top0, top1, bot0, bot1) ==
    (Ge(py, top0) /\ Le(py, top1)) \/ (Ge(py, bot0) /\ Le(py, bot1))

\* The body of corner_three_mask
CornerThreeBody(xh, yh, p, c, side) ==
    LET court_x == ParamsDims(p)[1]
        court_y == ParamsDims(p)[2]
        line_len == p["three_point_line_length"].v
        side_w == p["three_point_side_width"].v
        xl0 == Sub(c[1], DivInt(court_x, 2))
        xl1 == Add(xl0, line_len)
        xr1 == Add(c[1], DivInt(court_x, 2))
        xr0 == Sub(xr1, line_len)
        top0 == Sub(Add(c[2], DivInt(court_y, 2)), side_w)
        top1 == Add(c[2], DivInt(court_y, 2))
        bot0 == Sub(c[2], DivInt(court_y, 2))
        bot1 == Add(Sub(c[2], DivInt(court_y, 2)), side_w)
    IN  [i \in BroadcastDomain(xh, yh) |->
            LET px == BroadcastAt(xh, i)
                py == BroadcastAt(yh, i)
                left == (Ge(px, xl0) /\ Le(px, xl1))
                            /\ CornerBands(py, top0, top1, bot0, bot1)
                right == (Ge(px, xr0) /\ Le(px, xr1))
                            /\ CornerBands(py, top0, top1, bot0, bot1)
            IN  PickSide(side, left, right)]

\* np.abs(yh - cy) <= band
CentralBand(py, cy, band) == Le(AbsNum(Sub(py, cy)), band)

\* The body of above_break_three_mask
AboveBreakThreeBody(xh, yh, p, c, hoops, side) ==
    LET court_y == ParamsDims(p)[2]
        lx == hoops[1][1]
        ly == hoops[1][2]
        rhx == hoops[2][1]
        rhy == hoops[2][2]
        arc_r == DivInt(p["three_point_arc_diameter"].v, 2)
        side_w == p["three_point_side_width"].v
        band == Sub(DivInt(court_y, 2), side_w)
    IN  [i \in BroadcastDomain(xh, yh) |->
            LET px == BroadcastAt(xh, i)
                py == BroadcastAt(yh, i)
                dl2 == Add(Sq(Sub(px, lx)), Sq(Sub(py, ly)))
                dr2 == Add(Sq(Sub(px, rhx)), Sq(Sub(py, rhy)))
                left == CentralBand(py, c[2], band) /\ Ge(dl2, Sq(arc_r))
                right == CentralBand(py, c[2], band) /\ Ge(dr2, Sq(arc_r))
            IN  PickSide(side, left, right)]

MaskNames ==
    {"restricted_area_mask", "paint_mask", "corner_three_mask",
     "above_break_three_mask"}

MaskBody(zone, xh, yh, p, c, hoops, side) ==
    IF zone = "restricted_area_mask" THEN RestrictedAreaBody(xh, yh, p, hoops, side)
    ELSE IF zone = "paint_mask" THEN PaintBody(xh, yh, p, c, side)
    ELSE IF zone = "corner_three_mask" THEN CornerThreeBody(xh, yh, p, c, side)
    ELSE AboveBreakThreeBody(xh, yh, p, c, hoops, side)

\* The geometry a mask reads from spec_h, whose parameters are p
MaskOfParams(zone, xh, yh, p, spec_h, side) ==
    MaskBody(zone, xh, yh, p, CenterFromOrigin(spec_h.origin, ParamsDims(p)),
             ParamsHoopCenters(p, spec_h.origin, spec_h.orientation), side)

\* A mask on the points h and the spec spec_h of the horizontal frame
MaskHorizontal(zone, h, spec_h, side) ==
    IF SpecError(spec_h) # "none" THEN [err |-> SpecError(spec_h), out |-> <<>>]
    ELSE IF ~Broadcastable(Len(h.x), Len(h.y))
    THEN [err |-> "ValueError", out |-> <<>>]
    ELSE [err |-> "none",
          out |-> MaskOfParams(zone, h.x, h.y, SpecParams(spec_h), spec_h, side)]

\* A mask function called on the arrays ax, ay: the exception it raises and
\* the boolean array it returns.  The arrays are only read.
Mask(zone, ax, ay, spec, side) ==
    MaskHorizontal(zone, HorizontalPoints(ax, ay, spec), HorizontalSpec(spec), side)

\* What reading dims, center and hoop_centers of a CourtSpec gives
Geometry(spec) ==
    [dims |-> SpecDims(spec), center |-> SpecCenter(spec),
     hoop_centers |-> SpecHoopCenters(spec)]

(***************************************************************************)
(* zones.py: the geometry builders.  A polygon is an array of shape        *)
(* (N, 2): a sequence of points.  np.cos and np.sin are given by a table   *)
(* on the angles the builders reach with n <= 3.                           *)
(***************************************************************************)
\* np.cos(np.deg2rad(theta)) and np.sin(np.deg2rad(theta)) in binary64, for
\* every angle theta (in degrees) the builders reach
TrigTable ==
    { \* -90.0: cos 6.123233995736766e-17, sin -1.0
      [deg |-> Flt(TRUE, <<0, 0, 0, 2048, 22>>, -46),
       cos |-> Flt(FALSE, <<3079, 325, 1587, 2658, 17>>, -106),
       sin |-> Flt(TRUE, <<0, 0, 0, 0, 16>>, -52)],
      \* -83.51692630710276: cos 0.1129096880442863, sin -0.9936052547897187
      [deg |-> Flt(TRUE, <<3251, 317, 1362, 3601, 20>>, -46),
       cos |-> Flt(FALSE, <<236, 2260, 1593, 3706, 28>>, -56),
       sin |-> Flt(TRUE, <<1072, 1257, 3391, 3257, 31>>, -53)],
      \* -78.95: cos 0.19166555393205467, sin -0.9814602974323101
      [deg |-> Flt(TRUE, <<3277, 3276, 3276, 3020, 19>>, -46),
       cos |-> Flt(FALSE, <<1545, 3907, 3890, 2183, 24>>, -55),
       sin |-> Flt(TRUE, <<2592, 3990, 3948, 1665, 31>>, -53)],
      \* -78.9: cos 0.19252196652590745, sin -0.9812926639922451
      [deg |-> Flt(TRUE, <<2458, 2457, 2457, 2969, 19>>, -46),
       cos |-> Flt(FALSE, <<1215, 4076, 3918, 2632, 24>>, -55),
       sin |-> Flt(TRUE, <<2137, 1869, 4063, 1643, 31>>, -53)],
      \* -68.13: cos 0.3725019175431519, sin -0.9280314226504806
      [deg |-> Flt(TRUE, <<3768, 2129, 491, 133, 17>>, -46),
       cos |-> Flt(FALSE, <<856, 1582, 584, 3441, 23>>, -54),
       sin |-> Flt(TRUE, <<1695, 995, 3828, 2854, 29>>, -53)],
      \* 0.0: cos 1.0, sin 0.0
      [deg |-> Zero,
       cos |-> Flt(FALSE, <<0, 0, 0, 0, 16>>, -52),
       sin |-> Zero],
      \* 68.13: cos 0.3725019175431519, sin 0.9280314226504806
      [deg |-> Flt(FALSE, <<3768, 2129, 491, 133, 17>>, -46),
       cos |-> Flt(FALSE, <<856, 1582, 584, 3441, 23>>, -54),
       sin |-> Flt(FALSE, <<1695, 995, 3828, 2854, 29>>, -53)],
      \* 78.9: cos 0.19252196652590745, sin 0.9812926639922451
      [deg |-> Flt(FALSE, <<2458, 2457, 2457, 2969, 19>>, -46),
       cos |-> Flt(FALSE, <<1215, 4076, 3918, 2632, 24>>, -55),
       sin |-> Flt(FALSE, <<2137, 1869, 4063, 1643, 31>>, -53)],
      \* 78.95: cos 0.19166555393205467, sin 0.9814602974323101
      [deg |-> Flt(FALSE, <<3277, 3276, 3276, 3020, 19>>, -46),
       cos |-> Flt(FALSE, <<1545, 3907, 3890, 2183, 24>>, -55),
       sin |-> Flt(FALSE, <<2592, 3990, 3948, 1665, 31>>, -53)],
      \* 83.51692630710276: cos 0.1129096880442863, sin 0.9936052547897187
      [deg |-> Flt(FALSE, <<3251, 317, 1362, 3601, 20>>, -46),
       cos |-> Flt(FALSE, <<236, 2260, 1593, 3706, 28>>, -56),
       sin |-> Flt(FALSE, <<1072, 1257, 3391, 3257, 31>>, -53)],
      \* 90.0: cos 6.123233995736766e-17, sin 1.0
      [deg |-> Flt(FALSE, <<0, 0, 0, 2048, 22>>, -46),
       cos |-> Flt(FALSE, <<3079, 325, 1587, 2658, 17>>, -106),
       sin |-> Flt(FALSE, <<0, 0, 0, 0, 16>>, -52)],
      \* 96.48307369289724: cos -0.11290968804428618, sin 0.9936052547897187
      [deg |-> Flt(FALSE, <<845, 3778, 2733, 494, 24>>, -46),
       cos |-> Flt(TRUE, <<227, 2260, 1593, 3706, 28>>, -56),
       sin |-> Flt(FALSE, <<1072, 1257, 3391, 3257, 31>>, -53)],
      \* 101.05: cos -0.19166555393205453, sin 0.9814602974323101
      [deg |-> Flt(FALSE, <<819, 819, 819, 1075, 25>>, -46),
       cos |-> Flt(TRUE, <<1540, 3907, 3890, 2183, 24>>, -55),
       sin |-> Flt(FALSE, <<2592, 3990, 3948, 1665, 31>>, -53)],
      \* 101.1: cos -0.1925219665259073, sin 0.9812926639922452
      [deg |-> Flt(FALSE, <<1638, 1638, 1638, 1126, 25>>, -46),
       cos |-> Flt(TRUE, <<1210, 4076, 3918, 2632, 24>>, -55),
       sin |-> Flt(FALSE, <<2138, 1869, 4063, 1643, 31>>, -53)],
      \* 111.87: cos -0.37250191754315176, sin 0.9280314226504806
      [deg |-> Flt(FALSE, <<328, 1966, 3604, 3962, 27>>, -46),
       cos |-> Flt(TRUE, <<854, 1582, 584, 3441, 23>>, -54),
       sin |-> Flt(FALSE, <<1695, 995, 3828, 2854, 29>>, -53)],
      \* 180.0: cos -1.0, sin 1.2246467991473532e-16
      [deg |-> Flt(FALSE, <<0, 0, 0, 2048, 22>>, -45),
       cos |-> Flt(TRUE, <<0, 0, 0, 0, 16>>, -52),
       sin |-> Flt(FALSE, <<3079, 325, 1587, 2658, 17>>, -105)],
      \* 248.13: cos -0.3725019175431522, sin -0.9280314226504804
      [deg |-> Flt(FALSE, <<3932, 3112, 2293, 66, 31>>, -45),
       cos |-> Flt(TRUE, <<862, 1582, 584, 3441, 23>>, -54),
       sin |-> Flt(TRUE, <<1694, 995, 3828, 2854, 29>>, -53)],
      \* 258.9: cos -0.192521966525908, sin -0.981292663992245
      [deg |-> Flt(FALSE, <<1638, 1638, 1638, 742, 16>>, -44),
       cos |-> Flt(TRUE, <<1235, 4076, 3918, 2632, 24>>, -55),
       sin |-> Flt(TRUE, <<2136, 1869, 4063, 1643, 31>>, -53)],
      \* 258.95: cos -0.19166555393205523, sin -0.98146029743231
      [deg |-> Flt(FALSE, <<819, 819, 819, 755, 16>>, -44),
       cos |-> Flt(TRUE, <<1565, 3907, 3890, 2183, 24>>, -55),
       sin |-> Flt(TRUE, <<2591, 3990, 3948, 1665, 31>>, -53)],
      \* 263.5169263071028: cos -0.11290968804428643, sin -0.9936052547897187
      [deg |-> Flt(FALSE, <<1837, 2127, 1364, 1924, 16>>, -44),
       cos |-> Flt(TRUE, <<245, 2260, 1593, 3706, 28>>, -56),
       sin |-> Flt(TRUE, <<1072, 1257, 3391, 3257, 31>>, -53)] }

TrigOf(deg) == CHOOSE t \in TrigTable : t.deg = deg

\* np.cos(np.deg2rad(theta))
CosDeg(theta) == TrigOf(theta).cos

\* np.sin(np.deg2rad(theta))
SinDeg(theta) == TrigOf(theta).sin

\* np.linspace(start, stop, n), n >= 1: i * step + start with
\* step = (stop - start) / (n - 1), and the last element set to stop
LinspaceAt(start, stop, n, i) ==
    IF n = 1 THEN start
    ELSE IF i = n THEN stop
    ELSE Add(MulInt(i - 1, DivInt(Sub(stop, start), n - 1)), start)

Linspace(start, stop, n) == [i \in 1..n |-> LinspaceAt(start, stop, n, i)]

\* np.column_stack([xs, ys]) and the columns poly[:, 0], poly[:, 1]
ColumnStack(xs, ys) == [i \in DOMAIN xs |-> Pt(xs[i], ys[i])]

Column(poly, k) == [i \in DOMAIN poly |-> poly[i][k]]

\* The points center + radius * (cos, sin) along thetas
ArcPoints(center, radius, thetas) ==
    [i \in DOMAIN thetas |->
        Pt(Add(center[1], Mul(radius, CosDeg(thetas[i]))),
           Add(center[2], Mul(radius, SinDeg(thetas[i]))))]

\* np.vstack([points, points[0]]): closed by the chord
ClosedByChord(points) == Append(points, points[1])

\* _h2v_points on the columns of a polygon, stacked again
H2VPolygon(poly) ==
    ColumnStack(H2VPoints(Column(poly, 1), Column(poly, 2)).x,
                H2VPoints(Column(poly, 1), Column(poly, 2)).y)

\* (lx, ly) if side == "l" else (rx, ry)
HoopOfSide(hoops, side) == IF side = "l" THEN hoops[1] ELSE hoops[2]

\* theta1, theta2 of restricted_area_polygon
RestrictedAreaThetas(orientation, side) ==
    IF orientation = "h"
    THEN IF side = "l" THEN <<Num(-90, 1), Num(90, 1)>>
         ELSE <<Num(90, 1), Num(-90, 1)>>
    ELSE IF side \in {"l", "d"} THEN <<Num(-90, 1), Num(90, 1)>>
         ELSE <<Num(90, 1), Num(-90, 1)>>

\* restricted_area_polygon for the parameters p of spec: built in the
\* spec's own frame from its hoop centers
RestrictedAreaOfParams(p, spec, side, n) ==
    ClosedByChord(
        ArcPoints(HoopOfSide(ParamsHoopCenters(p, spec.origin, spec.orientation), side),
                  p["charge_circle_radius"].v,
                  Linspace(RestrictedAreaThetas(spec.orientation, side)[1],
                           RestrictedAreaThetas(spec.orientation, side)[2], n)))

\* Mutant of RestrictedAreaPolygon: the arc left open
RestrictedAreaPolygon_Open(spec, side, n) ==
    ArcPoints(HoopOfSide(SpecHoopCenters(spec), side),
              SpecParams(spec)["charge_circle_radius"].v,
              Linspace(RestrictedAreaThetas(spec.orientation, side)[1],
                       RestrictedAreaThetas(spec.orientation, side)[2], n))

RestrictedAreaPolygon(spec, side, n) ==
    RestrictedAreaOfParams(SpecParams(spec), spec, side, n)

\* [[x0, y0], [x1, y0], [x1, y1], [x0, y1], [x0, y0]]
Rect(rx0, ry0, rx1, ry1) ==
    <<Pt(rx0, ry0), Pt(rx1, ry0), Pt(rx1, ry1), Pt(rx0, ry1), Pt(rx0, ry0)>>

\* The rectangle of paint_polygon for a horizontal spec with center c
PaintRect(p, c, side) ==
    LET court_x == ParamsDims(p)[1]
        w == p["outer_paint_dims"].v[1]
        h == p["outer_paint_dims"].v[2]
        px0 == IF side = "l" THEN Sub(c[1], DivInt(court_x, 2))
               ELSE Sub(Add(c[1], DivInt(court_x, 2)), w)
        py0 == Sub(c[2], DivInt(h, 2))
    IN  Rect(px0, py0, Add(px0, w), Add(py0, h))

\* paint_polygon for the parameters p of spec: the rectangle of the
\* horizontal spec, rotated unless the orientation is "h"
PaintOfParams(p, spec, side) ==
    IF spec.orientation = "h"
    THEN PaintRect(p, CenterFromOrigin(spec.origin, ParamsDims(p)), side)
    ELSE H2VPolygon(PaintRect(p, CenterFromOrigin(spec.origin, ParamsDims(p)), side))

PaintPolygon(spec, side) == PaintOfParams(SpecParams(spec), spec, side)

\* [top, bot] of corner_three_rects for a horizontal spec with center c
CornerRects(p, c, side) ==
    LET court_x == ParamsDims(p)[1]
        court_y == ParamsDims(p)[2]
        line_len == p["three_point_line_length"].v
        side_w == p["three_point_side_width"].v
        cx0 == IF side = "l" THEN Sub(c[1], DivInt(court_x, 2))
               ELSE Sub(Add(c[1], DivInt(court_x, 2)), line_len)
        cx1 == IF side = "l" THEN Add(Sub(c[1], DivInt(court_x, 2)), line_len)
               ELSE Add(c[1], DivInt(court_x, 2))
        yt0 == Sub(Add(c[2], DivInt(court_y, 2)), side_w)
        yt1 == Add(c[2], DivInt(court_y, 2))
        yb0 == Sub(c[2], DivInt(court_y, 2))
        yb1 == Add(Sub(c[2], DivInt(court_y, 2)), side_w)
    IN  <<Rect(cx0, yt0, cx1, yt1), Rect(cx0, yb0, cx1, yb1)>>

\* for poly in rects_h: out.append(column_stack(_h2v_points(...)))
H2VPolygons(rects) == [k \in DOMAIN rects |-> H2VPolygon(rects[k])]

CornerThreeOfParams(p, spec, side) ==
    IF spec.orientation = "h"
    THEN CornerRects(p, CenterFromOrigin(spec.origin, ParamsDims(p)), side)
    ELSE H2VPolygons(CornerRects(p, CenterFromOrigin(spec.origin, ParamsDims(p)), side))

CornerThreeRects(spec, side) == CornerThreeOfParams(SpecParams(spec), spec, side)

\* base1 + offset and base2 + offset of three_point_arc_points
ArcThetas(arc_angle, side) ==
    IF side = "l" THEN <<Neg(arc_angle), arc_angle>>
    ELSE <<Add(Neg(arc_angle), Num(180, 1)), Add(arc_angle, Num(180, 1))>>

\* The polyline of three_point_arc_points for a horizontal spec
ArcPolyline(p, origin, side, n) ==
    ArcPoints(HoopOfSide(ParamsHoopCenters(p, origin, "h"), side),
              DivInt(p["three_point_arc_diameter"].v, 2),
              Linspace(ArcThetas(p["three_point_arc_angle"].v, side)[1],
                       ArcThetas(p["three_point_arc_angle"].v, side)[2], n))

ThreePointArcOfParams(p, spec, side, n) ==
    IF spec.orientation = "h" THEN ArcPolyline(p, spec.origin, side, n)
    ELSE H2VPolygon(ArcPolyline(p, spec.origin, side, n))

ThreePointArcPoints(spec, side, n) ==
    ThreePointArcOfParams(SpecParams(spec), spec, side, n)

ArcBuilders == {"restricted_area_polygon", "three_point_arc_points"}

RectBuilders == {"paint_polygon", "corner_three_rects"}

\* A builder called on spec: the exception it raises and what it returns
Build(zone, spec, side, n) ==
    IF SpecError(spec) # "none" THEN [err |-> SpecError(spec), out |-> <<>>]
    ELSE [err |-> "none",
          out |-> IF zone = "restricted_area_polygon"
                  THEN RestrictedAreaPolygon(spec, side, n)
                  ELSE IF zone = "three_point_arc_points"
                  THEN ThreePointArcPoints(spec, side, n)
                  ELSE IF zone = "paint_polygon" THEN PaintPolygon(spec, side)
                  ELSE CornerThreeRects(spec, side)]

(***************************************************************************)
(* grid.py: the extent of the court, a tuple (xmin, xmax, ymin, ymax).     *)
(* The half None is written "none".                                        *)
(***************************************************************************)
Halves == {"l", "r", "u", "d", "none"}

\* spec.orientation == "h": the box about the center c, cut at c.x by the
\* halves l and r
ExtentH(c, dims, half) ==
    << IF half = "r" THEN c[1] ELSE Sub(c[1], DivInt(dims[1], 2)),
       IF half = "l" THEN c[1] ELSE Add(c[1], DivInt(dims[1], 2)),
       Sub(c[2], DivInt(dims[2], 2)),
       Add(c[2], DivInt(dims[2], 2)) >>

\* Mutant of ExtentV: the spans of the horizontal frame kept along x and y
ExtentV_Unswapped(c, dims, half) ==
    << Sub(c[1], DivInt(dims[1], 2)),
       Add(c[1], DivInt(dims[1], 2)),
       IF half = "u" THEN c[2] ELSE Sub(c[2], DivInt(dims[2], 2)),
       IF half = "d" THEN c[2] ELSE Add(c[2], DivInt(dims[2], 2)) >>

\* Any other orientation: the x-span takes the court's width h, the y-span
\* its length w, cut at c.y by the halves d and u
ExtentV(c, dims, half) ==
    << Sub(c[1], DivInt(dims[2], 2)),
       Add(c[1], DivInt(dims[2], 2)),
       IF half = "u" THEN c[2] ELSE Sub(c[2], DivInt(dims[1], 2)),
       IF half = "d" THEN c[2] ELSE Add(c[2], DivInt(dims[1], 2)) >>

\* get_extent(spec, half): spec.dims and spec.center raise as SpecError says
GetExtent(spec, half) ==
    IF SpecError(spec) # "none" THEN [err |-> SpecError(spec), out |-> <<>>]
    ELSE IF spec.orientation = "h"
    THEN [err |-> "none", out |-> ExtentH(SpecCenter(spec), SpecDims(spec), half)]
    ELSE [err |-> "none", out |-> ExtentV(SpecCenter(spec), SpecDims(spec), half)]

(***************************************************************************)
(* The caller.  It holds two coordinate arrays x and y (x0, y0 remember    *)
(* their contents when they were created) and a CourtSpec, and calls the   *)
(* library.  rx, ry are the arrays the last call returned; aliased says    *)
(* they are the caller's own objects; err is the exception the last call   *)
(* raised ("none": it returned); call records the last call; out is the    *)
(* value a zone function returned; tables holds the module-level           *)
(* parameter dictionaries of court_params.py.                              *)
(***************************************************************************)
VARIABLES x, y, x0, y0, rx, ry, aliased, err, call, spec, out, pc

vars == <<x, y, x0, y0, rx, ry, aliased, err, call, spec, out, pc, tables>>

MaxLen == 2

\* Sample points in feet: on either side of every center line transform
\* compares with (0, +-47, +-45.93175) in both frames, and on two of them.
TransformPoints ==
    << Pt(Num(-60, 1), Num(5, 1)),
       Pt(Num(60, 1), Num(-5, 1)),
       Pt(Num(10, 1), Num(60, 1)),
       Pt(Num(-10, 1), Num(-60, 1)),
       Pt(Num(47, 1), Num(-47, 1)),
       Pt(Zero, Zero) >>

\* Selections of at most MaxLen of n points, in increasing order
Selections(n) ==
    { s \in UNION { [1..m -> 1..n] : m \in 0..MaxLen } :
        \A i \in DOMAIN s : \A j \in DOMAIN s : i < j => s[i] < s[j] }

\* The caller builds x and y from a selection of points; y may be one short
InitArrays(points) ==
    \E s \in Selections(Len(points)) : \E k \in {Len(s), Len(s) - 1} \cap Nat :
        /\ x = [i \in DOMAIN s |-> points[s[i]][1]]
        /\ y = [i \in 1..k |-> points[s[i]][2]]
        /\ x0 = x
        /\ y0 = y

NoCall == [op |-> "none"]

Init ==
    /\ InitArrays(TransformPoints)
    /\ rx = <<>>
    /\ ry = <<>>
    /\ aliased = FALSE
    /\ err = "none"
    /\ call = NoCall
    /\ spec = DefaultCourtSpec
    /\ out = <<>>
    /\ pc = "ready"
    /\ tables = CourtParamsTables

\* Argument values a caller may pass: the legal ones and one illegal each
\* ("vl" is the token the v-family guard of transform names)
FrToArgs == OrientationTokens \cup {"vl"}

OriginArgs == Origins \cup {"middle"}

CourtTypeArgs == CourtTypes \cup {"euro"}

\* What the call that left r does to the caller's arrays and names
Returned(r) ==
    /\ x' = r.x
    /\ y' = r.y
    /\ rx' = r.rx
    /\ ry' = r.ry
    /\ aliased' = r.aliased
    /\ err' = r.err

\* x_out, y_out = transform(x, y, fr, to, origin, court_type)
CallTransform(fr, to, origin, court_type) ==
    /\ pc = "ready"
    /\ Returned(Transform(x, y, fr, to, origin, court_type))
    /\ call' = [op |-> "transform", fr |-> fr, to |-> to, origin |-> origin,
                court_type |-> court_type]
    /\ pc' = "called"
    /\ UNCHANGED <<x0, y0, spec, out, tables>>

\* What a call on the arrays returned before does: when they are the caller's
\* own arrays, what the call writes into them is written into x and y
ReturnedBack(r) ==
    /\ x' = IF aliased THEN r.x ELSE x
    /\ y' = IF aliased THEN r.y ELSE y
    /\ rx' = r.rx
    /\ ry' = r.ry
    /\ aliased' = (aliased /\ r.aliased)
    /\ err' = r.err

\* x_back, y_back = transform(x_out, y_out, to, fr, origin, court_type): the
\* returned arrays go back in
CallTransformBack ==
    /\ pc = "called"
    /\ call.op = "transform"
    /\ err = "none"
    /\ ReturnedBack(Transform(rx, ry, call.to, call.fr, call.origin, call.court_type))
    /\ call' = [call EXCEPT !.op = "transform_back"]
    /\ pc' = "back"
    /\ UNCHANGED <<x0, y0, spec, out, tables>>

Next ==
    \/ \E fr \in FrToArgs, to \in FrToArgs, origin \in OriginArgs,
          court_type \in CourtTypeArgs :
          CallTransform(fr, to, origin, court_type)
    \/ CallTransformBack

Spec == Init /\ [][Next]_vars

(***************************************************************************)
(* The caller of the zone functions: it builds a CourtSpec, reads its      *)
(* geometry and classifies its points.                                     *)
(***************************************************************************)
\* Sample points in feet, placed for the origin at the center: inside the
\* left restricted area and paint, in the left corner three, at mid-court,
\* and on the right hoop
ZonePoints ==
    << Pt(Num(-40, 1), Num(1, 1)),
       Pt(Num(-40, 1), Num(23, 1)),
       Pt(Zero, Zero),
       Pt(Num(4175, 100), Zero) >>

InitZones ==
    /\ InitArrays(ZonePoints)
    /\ rx = <<>>
    /\ ry = <<>>
    /\ aliased = FALSE
    /\ err = "none"
    /\ call = NoCall
    /\ spec = DefaultCourtSpec
    /\ out = <<>>
    /\ pc = "ready"
    /\ tables = CourtParamsTables

UnitsArgs == UnitsDomain \cup {"yd"}

OrientationArgs == Orientations \cup {"d"}

SideArgs == {"l", "r", "both", "u"}

\* The caller gets at most one of the four fields wrong
AtMostOneIllegal(court_type, units, origin, orientation) ==
    Cardinality({f \in 1..4 :
        \/ f = 1 /\ court_type \notin CourtTypes
        \/ f = 2 /\ units \notin UnitsDomain
        \/ f = 3 /\ origin \notin Origins
        \/ f = 4 /\ orientation \notin Orientations}) <= 1

\* spec = CourtSpec(court_type, units, origin, orientation): the dataclass
\* stores the four fields
Construct(court_type, units, origin, orientation) ==
    /\ pc = "ready"
    /\ spec' = CourtSpec(court_type, units, origin, orientation)
    /\ err' = "none"
    /\ call' = [op |-> "CourtSpec"]
    /\ pc' = "constructed"
    /\ UNCHANGED <<x, y, x0, y0, rx, ry, aliased, out, tables>>

\* spec.dims, spec.center, spec.hoop_centers
ReadGeometry ==
    /\ pc = "constructed"
    /\ err' = SpecError(spec)
    /\ out' = IF SpecError(spec) = "none" THEN Geometry(spec) ELSE <<>>
    /\ call' = [op |-> "geometry"]
    /\ pc' = "called"
    /\ UNCHANGED <<x, y, x0, y0, rx, ry, aliased, spec, tables>>

\* What the mask call that left r gives the caller
MaskReturned(r) ==
    /\ err' = r.err
    /\ out' = r.out

\* m = <zone>(x, y, spec, side)
CallMask(zone, side) ==
    /\ pc = "constructed"
    /\ MaskReturned(Mask(zone, x, y, spec, side))
    /\ call' = [op |-> zone, side |-> side]
    /\ pc' = "called"
    /\ UNCHANGED <<x, y, x0, y0, rx, ry, aliased, spec, tables>>

NextZones ==
    \/ \E court_type \in CourtTypeArgs, units \in UnitsArgs, origin \in OriginArgs,
          orientation \in OrientationArgs :
          /\ AtMostOneIllegal(court_type, units, origin, orientation)
          /\ Construct(court_type, units, origin, orientation)
    \/ ReadGeometry
    \/ \E zone \in MaskNames, side \in SideArgs : CallMask(zone, side)

SpecZones == InitZones /\ [][NextZones]_vars

(***************************************************************************)
(* The caller of the geometry: it builds a CourtSpec and reads its          *)
(* parameters, its derived geometry and the zone polygons.                 *)
(***************************************************************************)
InitGeometry ==
    /\ x = <<>>
    /\ y = <<>>
    /\ x0 = <<>>
    /\ y0 = <<>>
    /\ rx = <<>>
    /\ ry = <<>>
    /\ aliased = FALSE
    /\ err = "none"
    /\ call = NoCall
    /\ spec = DefaultCourtSpec
    /\ out = <<>>
    /\ pc = "ready"
    /\ tables = CourtParamsTables

\* spec.params
ReadParams ==
    /\ pc = "constructed"
    /\ err' = IF ParamsRaises(spec.court_type, spec.units) THEN "AssertionError"
              ELSE "none"
    /\ out' = IF ParamsRaises(spec.court_type, spec.units) THEN <<>>
              ELSE SpecParams(spec)
    /\ call' = [op |-> "params"]
    /\ pc' = "called"
    /\ UNCHANGED <<x, y, x0, y0, rx, ry, aliased, spec, tables>>

\* Numbers of points a caller asks of the arc builders
NArgs == {1, 2, 3}

BuilderSideArgs == {"l", "r"}

\* What the builder call that left r gives the caller
BuilderReturned(r) ==
    /\ err' = r.err
    /\ out' = r.out

\* poly = restricted_area_polygon(spec, side, n) or
\* pts = three_point_arc_points(spec, side, n)
CallArcBuilder(zone, side, n) ==
    /\ pc = "constructed"
    /\ BuilderReturned(Build(zone, spec, side, n))
    /\ call' = [op |-> zone, side |-> side, n |-> n]
    /\ pc' = "built"
    /\ UNCHANGED <<x, y, x0, y0, rx, ry, aliased, spec, tables>>

\* poly = paint_polygon(spec, side) or rects = corner_three_rects(spec, side)
CallRectBuilder(zone, side) ==
    /\ pc = "constructed"
    /\ BuilderReturned(Build(zone, spec, side, 0))
    /\ call' = [op |-> zone, side |-> side, n |-> 0]
    /\ pc' = "built"
    /\ UNCHANGED <<x, y, x0, y0, rx, ry, aliased, spec, tables>>

\* xmin, xmax, ymin, ymax = get_extent(spec, half)
CallGetExtent(half) ==
    /\ pc = "constructed"
    /\ BuilderReturned(GetExtent(spec, half))
    /\ call' = [op |-> "get_extent", half |-> half]
    /\ pc' = "called"
    /\ UNCHANGED <<x, y, x0, y0, rx, ry, aliased, spec, tables>>

\* The midpoints of the segments of a polyline
Midpoints(poly) ==
    [i \in 1..(Len(poly) - 1) |->
        Pt(DivInt(Add(poly[i][1], poly[i + 1][1]), 2),
           DivInt(Add(poly[i][2], poly[i + 1][2]), 2))]

\* The points a caller takes from what a builder returned: its vertices or
\* the midpoints of its segments (of both rectangles for corner_three_rects)
SamplePoints(kind, zone, built) ==
    IF zone = "corner_three_rects"
    THEN IF kind = "vertices" THEN built[1] \o built[2]
         ELSE Midpoints(built[1]) \o Midpoints(built[2])
    ELSE IF kind = "vertices" THEN built ELSE Midpoints(built)

PointKinds == {"vertices", "midpoints"}

\* x, y = pts[:, 0], pts[:, 1]; m = <zone>(x, y, spec, side)
Classify(pts, zone) ==
    /\ x' = Column(pts, 1)
    /\ y' = Column(pts, 2)
    /\ x0' = Column(pts, 1)
    /\ y0' = Column(pts, 2)
    /\ MaskReturned(Mask(zone, Column(pts, 1), Column(pts, 2), spec, call.side))

\* The caller classifies points of the polygon it built, with the side it
\* built it for
ClassifyPoints(kind, zone) ==
    /\ pc = "built"
    /\ err = "none"
    /\ Classify(SamplePoints(kind, call.op, out), zone)
    /\ call' = [op |-> zone, side |-> call.side, of |-> call.op, n |-> call.n,
                points |-> kind]
    /\ pc' = "called"
    /\ UNCHANGED <<rx, ry, aliased, spec, tables>>

NextGeometry ==
    \/ \E court_type \in CourtTypeArgs, units \in UnitsArgs, origin \in OriginArgs,
          orientation \in OrientationArgs :
          /\ AtMostOneIllegal(court_type, units, origin, orientation)
          /\ Construct(court_type, units, origin, orientation)
    \/ ReadParams
    \/ ReadGeometry
    \/ \E zone \in ArcBuilders, side \in BuilderSideArgs, n \in NArgs :
          CallArcBuilder(zone, side, n)
    \/ \E zone \in RectBuilders, side \in BuilderSideArgs :
          CallRectBuilder(zone, side)
    \/ \E kind \in PointKinds, zone \in MaskNames : ClassifyPoints(kind, zone)
    \/ \E half \in Halves : CallGetExtent(half)

SpecGeometry == InitGeometry /\ [][NextGeometry]_vars

(***************************************************************************)
(* The caller of the parameter lookup.  tables holds the four module-level  *)
(* dictionaries of court_params.py; the caller looks parameters up, reads   *)
(* the properties of a CourtSpec and writes into the mappings it was given.*)
(***************************************************************************)
InitTables ==
    /\ x = <<>>
    /\ y = <<>>
    /\ x0 = <<>>
    /\ y0 = <<>>
    /\ rx = <<>>
    /\ ry = <<>>
    /\ aliased = FALSE
    /\ err = "none"
    /\ call = NoCall
    /\ spec = DefaultCourtSpec
    /\ out = <<>>
    /\ pc = "ready"
    /\ tables = CourtParamsTables

\* Mutant of SharedEntries: every pair-valued entry handed over as it is
SharedEntries_Shallow(court_params) ==
    {key \in DOMAIN court_params : court_params[key].list}

\* The keys whose list in the new mapping is the list object of court_params:
\* new_court_params[key] = value hands the value over, a comprehension
\* builds a new list
SharedEntries(court_params) ==
    {key \in DOMAIN court_params :
        InSeq("angle", KeyWords[key]) /\ court_params[key].list}

\* What the caller wrote last into a mapping it was given
LastWrite ==
    IF pc = "written" THEN <<call.court_type, call.units, call.key, call.i>>
    ELSE <<>>

\* params = _get_court_params_in_desired_units(court_type, desired_units)
CallLookup(court_type, desired_units) ==
    /\ pc \in {"ready", "written"}
    /\ err' = IF ParamsRaises(court_type, desired_units) THEN "AssertionError"
              ELSE "none"
    /\ out' = IF ParamsRaises(court_type, desired_units) THEN <<>>
              ELSE GetCourtParams(court_type, desired_units)
    /\ call' = [op |-> "lookup", court_type |-> court_type,
                units |-> desired_units, after |-> LastWrite]
    /\ pc' = "called"
    /\ UNCHANGED <<x, y, x0, y0, rx, ry, aliased, spec, tables>>

PropertyNames == {"params", "dims", "center", "hoop_centers"}

\* A property of a CourtSpec whose params property returned p
PropertyOfParams(name, p, sp) ==
    IF name = "params" THEN p
    ELSE IF name = "dims" THEN ParamsDims(p)
    ELSE IF name = "center"
    THEN OrientCenter(CenterFromOrigin(sp.origin, ParamsDims(p)), sp.orientation)
    ELSE ParamsHoopCenters(p, sp.origin, sp.orientation)

\* value = CourtSpec(court_type, units, origin, orientation).<name>
ReadProperty(name, court_type, units, origin, orientation) ==
    /\ pc \in {"ready", "written"}
    /\ spec' = CourtSpec(court_type, units, origin, orientation)
    /\ err' = "none"
    /\ out' = PropertyOfParams(name, GetCourtParams(court_type, units),
                               CourtSpec(court_type, units, origin, orientation))
    /\ call' = [op |-> name]
    /\ pc' = "read"
    /\ UNCHANGED <<x, y, x0, y0, rx, ry, aliased, tables>>

\* Pair-valued entries a caller writes into
WrittenKeys == {"court_dims", "outer_paint_dims"}

\* dicts after element i of the list at key of dicts[court_type] is set to v
WriteThrough(dicts, court_type, key, i, v) ==
    [dicts EXCEPT ![court_type][key] = List([@.v EXCEPT ![i] = v])]

\* params[key][i] = 0.0 on the mapping the last lookup returned: the write
\* reaches the module-level dictionary exactly when the list is shared
WriteReturned(key, i) ==
    /\ pc = "called"
    /\ call.op = "lookup"
    /\ err = "none"
    /\ out[key].list
    /\ i \in DOMAIN out[key].v
    /\ out' = [out EXCEPT ![key] = List([@.v EXCEPT ![i] = Zero])]
    /\ tables' = IF key \in SharedEntries(tables[call.court_type])
                 THEN WriteThrough(tables, call.court_type, key, i, Zero)
                 ELSE tables
    /\ call' = [op |-> "write", court_type |-> call.court_type,
                units |-> call.units, key |-> key, i |-> i]
    /\ pc' = "written"
    /\ UNCHANGED <<x, y, x0, y0, rx, ry, aliased, err, spec>>

NextTables ==
    \/ \E court_type \in CourtTypeArgs, desired_units \in UnitsArgs :
          CallLookup(court_type, desired_units)
    \/ \E name \in PropertyNames, court_type \in CourtTypes, units \in UnitsDomain,
          origin \in Origins, orientation \in Orientations :
          ReadProperty(name, court_type, units, origin, orientation)
    \/ \E key \in WrittenKeys, i \in 1..2 : WriteReturned(key, i)

SpecTables == InitTables /\ [][NextTables]_vars

(***************************************************************************)
(* Properties of transform, checked under Spec.                            *)
(***************************************************************************)
\* The last call was transform with four legal arguments
LegalTransformCall ==
    /\ call.op \in {"transform", "transform_back"}
    /\ call.fr \in OrientationTokens
    /\ call.to \in OrientationTokens
    /\ call.origin \in Origins
    /\ call.court_type \in CourtTypes

\* The caller's arrays are a well-formed point set
EqualLengths == Len(x0) = Len(y0)

\* No point lies on the center line of either frame
OffCenterLine ==
    LET c == CenterCourt(call.origin, call.court_type)
    IN  /\ \A i \in DOMAIN x0 : x0[i] # c[1]
        /\ \A i \in DOMAIN y0 : y0[i] # c[1]

\* C2 (as claimed): after transform with legal arguments the caller's x and y
\* hold the values they held before the call.
C2_InputsUnchanged ==
    (pc = "called" /\ LegalTransformCall /\ EqualLengths)
        => (x = x0 /\ y = y0)

\* C3 (as claimed): transform from A to B followed by transform from B to A
\* returns the original coordinates, for every pair of tokens and all points
\* off the center line.
C3_RoundTripAllPairs ==
    (pc = "back" /\ LegalTransformCall /\ EqualLengths /\ err = "none"
        /\ OffCenterLine)
        => (rx = x0 /\ ry = y0)

\* C3 (amended): the round trip returns the original coordinates when A = B
\* or when A and B are the two full-court tokens h and v, for all points off
\* the center line.
C3_RoundTripFullCourt ==
    (pc = "back" /\ LegalTransformCall /\ EqualLengths /\ err = "none"
        /\ OffCenterLine
        /\ (call.fr = call.to \/ {call.fr, call.to} = {"h", "v"}))
        => (rx = x0 /\ ry = y0)

C3_Witness ==
    /\ pc = "back"
    /\ LegalTransformCall
    /\ call.fr = "h"
    /\ call.to = "v"
    /\ call.origin = "top-left"
    /\ Len(x0) = 2
    /\ EqualLengths
    /\ OffCenterLine
    /\ err = "none"
    /\ rx = x0
    /\ ry = y0

\* C4: transform from h to v returns (-y, x) and from v to h returns (y, -x)
\* for every point, origin and league; and whenever the destination is a
\* full-court token no point is reflected: the result is the input itself
\* within a family and the rotated input across families.
C4_FullCourtRotation ==
    (pc = "called" /\ LegalTransformCall /\ call.to \in {"h", "v"})
        => /\ err = "none"
           /\ (Family(call.fr) = Family(call.to) => rx = x0 /\ ry = y0)
           /\ (Family(call.fr) = "h" /\ call.to = "v"
                 => rx = NegArr(y0) /\ ry = x0)
           /\ (Family(call.fr) = "v" /\ call.to = "h"
                 => rx = y0 /\ ry = NegArr(x0))

C4_Witness ==
    /\ pc = "called"
    /\ LegalTransformCall
    /\ call.fr = "h"
    /\ call.to = "v"
    /\ Len(x0) = 2
    /\ EqualLengths
    /\ err = "none"
    /\ rx = NegArr(y0)
    /\ ry = x0
    /\ rx # x0

\* C5: when fr = to, transform returns coordinates equal to its inputs, for
\* every token, origin and league.
C5_SameOrientationIdentity ==
    (pc = "called" /\ LegalTransformCall /\ call.fr = call.to)
        => (err = "none" /\ rx = x0 /\ ry = y0)

\* A half-court token on both sides, with a point on its wrong side
C5_Witness ==
    /\ pc = "called"
    /\ LegalTransformCall
    /\ call.fr = "hr"
    /\ call.to = "hr"
    /\ EqualLengths
    /\ \E i \in DOMAIN x0 :
          Lt(x0[i], CenterCourt(call.origin, call.court_type)[1])
    /\ err = "none"
    /\ rx = x0
    /\ ry = y0

C7_LengthMismatchRejected ==
    (pc = "called" /\ LegalTransformCall /\ Len(x0) # Len(y0))
        => (err # "none" /\ x = x0 /\ y = y0)

(***************************************************************************)
(* Properties of CourtSpec and the masks, checked under SpecZones.         *)
(***************************************************************************)
LegalSpec(sp) ==
    /\ sp.court_type \in CourtTypes
    /\ sp.units \in UnitsDomain
    /\ sp.origin \in Origins
    /\ sp.orientation \in Orientations

\* The last call was a mask with a legal spec and a legal side
LegalMaskCall ==
    /\ pc = "called"
    /\ call.op \in MaskNames
    /\ call.side \in {"l", "r", "both"}
    /\ LegalSpec(spec)

WithOrientation(sp, orientation) ==
    CourtSpec(sp.court_type, sp.units, sp.origin, orientation)

\* The rotation (x, y) -> (-y, x) of a point and of a point set
Rotated(pt) == Pt(Neg(pt[2]), pt[1])

RotatedX(ax, ay) == [i \in DOMAIN ay |-> Neg(ay[i])]

RotatedY(ax, ay) == ax

\* C1: for each mask, league, units, origin and side, the mask of (x, y)
\* under the horizontal CourtSpec equals the mask of the rotated points
\* (-y, x) under the CourtSpec that differs only in orientation = "v".  A
\* state holds the mask of the caller's points under its spec: under a
\* horizontal spec they are the points rotated, under a vertical spec they
\* are the rotated images of (y, -x).
C1_RotationConsistency ==
    LegalMaskCall =>
        IF spec.orientation = "h"
        THEN LET m == Mask(call.op, RotatedX(x, y), RotatedY(x, y),
                           WithOrientation(spec, "v"), call.side)
             IN  m.err = err /\ m.out = out
        ELSE LET hx == y
                 hy == [i \in DOMAIN x |-> Neg(x[i])]
                 m == Mask(call.op, hx, hy, WithOrientation(spec, "h"), call.side)
             IN  /\ RotatedX(hx, hy) = x
                 /\ RotatedY(hx, hy) = y
                 /\ m.err = err
                 /\ m.out = out

\* A restricted-area mask under a horizontal spec with a point inside and a
\* point outside
C1_Witness ==
    /\ LegalMaskCall
    /\ call.op = "restricted_area_mask"
    /\ spec.orientation = "h"
    /\ err = "none"
    /\ \E i \in DOMAIN out : out[i]
    /\ \E i \in DOMAIN out : ~out[i]

\* C8 (as claimed): a constructed CourtSpec holds no field outside its
\* domain (construction with such a field fails).
C8_FieldsInDomain == (pc = "constructed") => LegalSpec(spec)

\* C9 (as claimed): a mask called with a side outside {l, r, both} raises.
C9_IllegalSideRejected ==
    (pc = "called" /\ call.op \in MaskNames /\ LegalSpec(spec) /\ EqualLengths
        /\ Len(x0) >= 1 /\ call.side \notin {"l", "r", "both"})
        => err # "none"

\* C10: for every league, units and origin, the two CourtSpecs that differ
\* only in orientation have equal dims, and the center and both hoop centers
\* of the vertical one are the rotation (x, y) -> (-y, x) of those of the
\* horizontal one.
C10_OrientationPair ==
    (pc = "called" /\ call.op = "geometry" /\ LegalSpec(spec))
        => /\ err = "none"
           /\ LET other == Geometry(WithOrientation(spec,
                               IF spec.orientation = "h" THEN "v" ELSE "h"))
                  gh == IF spec.orientation = "h" THEN out ELSE other
                  gv == IF spec.orientation = "h" THEN other ELSE out
              IN  /\ gh.dims = gv.dims
                  /\ gv.center = Rotated(gh.center)
                  /\ gv.hoop_centers[1] = Rotated(gh.hoop_centers[1])
                  /\ gv.hoop_centers[2] = Rotated(gh.hoop_centers[2])

C10_Witness ==
    /\ pc = "called"
    /\ call.op = "geometry"
    /\ LegalSpec(spec)
    /\ spec.orientation = "v"
    /\ spec.origin = "bottom-right"
    /\ spec.units = "m"
    /\ err = "none"
    /\ out.center = Rotated(Geometry(WithOrientation(spec, "h")).center)
    /\ out.center # Geometry(WithOrientation(spec, "h")).center

(***************************************************************************)
(* Properties of the parameters, the geometry and the zone polygons,       *)
(* checked under SpecGeometry.                                             *)
(***************************************************************************)
\* The geometry of a legal CourtSpec has been read
GeometryRead == pc = "called" /\ call.op = "geometry" /\ LegalSpec(spec)

\* A point of the spec's frame brought back to the horizontal frame:
\* (x, y) -> (y, -x) under a vertical spec
Horizontal(pt) == IF spec.orientation = "v" THEN Pt(pt[2], Neg(pt[1])) ELSE pt

\* C11: in the horizontal frame the center is (0, 0) for origin center,
\* (+w/2, -d/2) for top-left, (+w/2, +d/2) for bottom-left, (-w/2, -d/2) for
\* top-right and (-w/2, +d/2) for bottom-right, with (w, d) = dims.
C11_OriginToCenter ==
    GeometryRead =>
        LET w2 == DivInt(out.dims[1], 2)
            d2 == DivInt(out.dims[2], 2)
            c == Horizontal(out.center)
        IN  /\ err = "none"
            /\ spec.origin = "center" => c = Pt(Zero, Zero)
            /\ spec.origin = "top-left" => c = Pt(w2, Neg(d2))
            /\ spec.origin = "bottom-left" => c = Pt(w2, d2)
            /\ spec.origin = "top-right" => c = Pt(Neg(w2), Neg(d2))
            /\ spec.origin = "bottom-right" => c = Pt(Neg(w2), d2)

C11_Witness ==
    /\ GeometryRead
    /\ spec = CourtSpec("nba", "ft", "top-left", "h")
    /\ out.center = Pt(Num(47, 1), Num(-25, 1))

\* C12: in the horizontal frame the left hoop is (center.x - w/2 +
\* hoop_distance_from_edge, center.y) and the right hoop is (center.x + w/2 -
\* hoop_distance_from_edge, center.y): mirror images about the court center.
C12_HoopCenters ==
    GeometryRead =>
        LET w2 == DivInt(out.dims[1], 2)
            e == SpecParams(spec)["hoop_distance_from_edge"].v
            c == Horizontal(out.center)
            left == Horizontal(out.hoop_centers[1])
            right == Horizontal(out.hoop_centers[2])
        IN  /\ left = Pt(Add(Sub(c[1], w2), e), c[2])
            /\ right = Pt(Sub(Add(c[1], w2), e), c[2])
            /\ Sub(c[1], left[1]) = Sub(right[1], c[1])
            /\ Lt(left[1], right[1])

C12_Witness ==
    /\ GeometryRead
    /\ spec = CourtSpec("nba", "ft", "center", "v")
    /\ out.hoop_centers[1] = Pt(Zero, Num(-4175, 100))
    /\ out.hoop_centers[2] = Pt(Zero, Num(4175, 100))

\* C13: conversion to meters multiplies every length-valued parameter (each
\* element of a pair too) by 0.3048 and leaves three_point_arc_angle at its
\* value in feet; conversion to feet leaves every parameter at the table
\* value.
C13_UnitConversion ==
    (pc = "called" /\ call.op = "params" /\ LegalSpec(spec)) =>
        /\ err = "none"
        /\ DOMAIN out = DOMAIN CourtParamsTable(spec.court_type)
        /\ \A key \in DOMAIN out :
              LET t == CourtParamsTable(spec.court_type)[key]
              IN  IF spec.units = "ft" \/ key = "three_point_arc_angle"
                  THEN out[key] = t
                  ELSE /\ out[key].list = t.list
                       /\ IF t.list
                          THEN /\ Len(out[key].v) = Len(t.v)
                               /\ \A i \in DOMAIN t.v :
                                     out[key].v[i] = Mul(t.v[i], Num(3048, 10000))
                          ELSE out[key].v = Mul(t.v, Num(3048, 10000))

C13_Witness ==
    /\ pc = "called"
    /\ call.op = "params"
    /\ spec.court_type = "nba"
    /\ spec.units = "m"
    /\ LegalSpec(spec)
    \* 94.0 * 0.3048 rounds to 28.651200000000003
    /\ out["court_dims"].v
          = <<Flt(FALSE, <<1980, 242, 1291, 2667, 28>>, -48), Num(1524, 100)>>
    /\ out["hoop_height"].v = Num(3048, 1000)
    /\ out["three_point_arc_angle"].v = Num(6813, 100)

(***************************************************************************)
(* The masks under the unit conversion, checked under SpecGeometry on the  *)
(* points of the built polygons.                                           *)
(***************************************************************************)
WithUnits(sp, units) == CourtSpec(sp.court_type, units, sp.origin, sp.orientation)

\* Coordinates in feet expressed in meters
InMeters(a) == [i \in DOMAIN a |-> Mul(a[i], Num(3048, 10000))]

\* C14 (as claimed): for each mask, league, origin, orientation and side, the
\* mask of (x, y) under the feet-based CourtSpec equals the mask of
\* (0.3048 x, 0.3048 y) under the meters-based CourtSpec.
C14_UnitInvariance ==
    (LegalMaskCall /\ spec.units = "ft") =>
        /\ Mask(call.op, InMeters(x), InMeters(y), WithUnits(spec, "m"),
                call.side).err = err
        /\ Mask(call.op, InMeters(x), InMeters(y), WithUnits(spec, "m"),
                call.side).out = out

(***************************************************************************)
(* Properties of the zone polygons and of the masks on their points,       *)
(* checked under SpecGeometry.                                             *)
(***************************************************************************)
\* The caller classified points of a polygon built for a legal CourtSpec
Classified(zone) ==
    /\ pc = "called"
    /\ call.op = zone
    /\ LegalSpec(spec)
    /\ err = "none"

\* A builder returned for a legal CourtSpec
Built(zone) ==
    /\ pc = "built"
    /\ call.op = zone
    /\ LegalSpec(spec)

\* The i-th classified point in the horizontal frame
PointH(i) == Horizontal(Pt(x[i], y[i]))

\* The hoop of the called side in the horizontal frame
HoopH == HoopOfSide(SpecHoopCenters(WithOrientation(spec, "h")), call.side)

\* The i-th classified point lies at distance exactly charge_circle_radius
\* from the hoop of the called side, on its side facing mid-court
OnChargeArc(i) ==
    /\ Add(Sq(Sub(PointH(i)[1], HoopH[1])), Sq(Sub(PointH(i)[2], HoopH[2])))
          = Sq(SpecParams(spec)["charge_circle_radius"].v)
    /\ IF call.side = "l" THEN ~Lt(PointH(i)[1], HoopH[1])
       ELSE ~Gt(PointH(i)[1], HoopH[1])

\* The paint rectangle of the called side in the horizontal frame: its
\* bounds in x and in y
PaintEdges ==
    LET c == SpecCenter(WithOrientation(spec, "h"))
        court_x == SpecDims(spec)[1]
        w == SpecParams(spec)["outer_paint_dims"].v[1]
        h == SpecParams(spec)["outer_paint_dims"].v[2]
    IN  [xlo |-> IF call.side = "l" THEN Sub(c[1], DivInt(court_x, 2))
                 ELSE Sub(Add(c[1], DivInt(court_x, 2)), w),
         xhi |-> IF call.side = "l" THEN Add(Sub(c[1], DivInt(court_x, 2)), w)
                 ELSE Add(c[1], DivInt(court_x, 2)),
         ylo |-> Sub(c[2], DivInt(h, 2)),
         yhi |-> Add(c[2], DivInt(h, 2))]

\* The i-th classified point lies on the edge of the rectangle r named by
\* edge
OnEdge(i, r, edge) ==
    IF edge \in {"xlo", "xhi"}
    THEN PointH(i)[1] = r[edge] /\ ~Lt(PointH(i)[2], r.ylo) /\ ~Gt(PointH(i)[2], r.yhi)
    ELSE PointH(i)[2] = r[edge] /\ ~Lt(PointH(i)[1], r.xlo) /\ ~Gt(PointH(i)[1], r.xhi)

EdgeNames == {"xlo", "xhi", "ylo", "yhi"}

\* C15: zone bounds are inclusive: every point lying exactly on one of the
\* four edges of a side's paint rectangle is flagged by paint_mask for that
\* side, and every point at distance exactly charge_circle_radius from a hoop
\* on its mid-court-facing side (x equal to the hoop's x included) is flagged
\* by restricted_area_mask for that side.
C15_BoundaryInclusive ==
    /\ Classified("paint_mask")
          => \A i \in DOMAIN out :
                (\E edge \in EdgeNames : OnEdge(i, PaintEdges, edge)) => out[i]
    /\ Classified("restricted_area_mask")
          => \A i \in DOMAIN out : OnChargeArc(i) => out[i]

\* Points on each of the four edges of a paint rectangle, all flagged
C15_PaintEdgesReached ==
    /\ Classified("paint_mask")
    /\ \A edge \in EdgeNames :
          \E i \in DOMAIN out : OnEdge(i, PaintEdges, edge) /\ out[i]

\* A right-hand restricted area with a point on the arc strictly on the
\* mid-court side of the hoop and a point straight above or below the hoop
C15_Witness ==
    /\ Classified("restricted_area_mask")
    /\ call.side = "r"
    /\ \E i \in DOMAIN out :
          OnChargeArc(i) /\ Lt(PointH(i)[1], HoopH[1]) /\ out[i]
    /\ \E i \in DOMAIN out :
          OnChargeArc(i) /\ PointH(i)[1] = HoopH[1] /\ out[i]

\* C16 (as claimed): for every league, side in {l, r} and point,
\* corner_three_mask and above_break_three_mask with the same spec and side
\* are never both true, points on the boundary between the corner band and
\* the central band included.
C16_CornerAboveBreakDisjoint ==
    Classified("corner_three_mask") =>
        \A i \in DOMAIN out :
            ~(out[i] /\ Mask("above_break_three_mask", x, y, spec, call.side).out[i])

\* C17 (as claimed): for a horizontal CourtSpec every vertex of
\* restricted_area_polygon(spec, side) is flagged by
\* restricted_area_mask(spec, side), for side l and side r.
C17_RestrictedPolygonFlagged ==
    (Classified("restricted_area_mask") /\ call.of = "restricted_area_polygon"
        /\ call.points = "vertices" /\ spec.orientation = "h")
        => \A i \in DOMAIN out : out[i]

\* The rotation (x, y) -> (-y, x) of every vertex of a polygon
RotatedPolygon(poly) == [i \in DOMAIN poly |-> Rotated(poly[i])]

\* What the builder of the last call returns for the horizontal CourtSpec
\* with the same league, units and origin, the same side and the same n
BuiltHorizontal ==
    Build(call.op, WithOrientation(spec, "h"), call.side, call.n).out

\* C18 (as claimed): for a vertical CourtSpec restricted_area_polygon equals,
\* vertex by vertex, the rotation (x, y) -> (-y, x) of the polygon built
\* for the horizontal CourtSpec.
C18_RestrictedPolygonRotated ==
    (Built("restricted_area_polygon") /\ spec.orientation = "v")
        => out = RotatedPolygon(BuiltHorizontal)

\* C19: for a vertical CourtSpec paint_polygon, corner_three_rects and
\* three_point_arc_points return the pointwise rotation (x, y) -> (-y, x) of
\* what they return for the horizontal CourtSpec, vertices in the same order.
C19_BuildersRotated ==
    /\ (Built("paint_polygon") /\ spec.orientation = "v")
          => out = RotatedPolygon(BuiltHorizontal)
    /\ (Built("three_point_arc_points") /\ spec.orientation = "v")
          => out = RotatedPolygon(BuiltHorizontal)
    /\ (Built("corner_three_rects") /\ spec.orientation = "v")
          => /\ Len(out) = 2
             /\ out[1] = RotatedPolygon(BuiltHorizontal[1])
             /\ out[2] = RotatedPolygon(BuiltHorizontal[2])

C19_Witness ==
    /\ Built("three_point_arc_points")
    /\ spec.orientation = "v"
    /\ spec.origin = "top-left"
    /\ call.side = "r"
    /\ call.n = 3
    /\ Len(out) = 3
    /\ out = RotatedPolygon(BuiltHorizontal)
    /\ out # BuiltHorizontal

\* C20: every polygon of restricted_area_polygon and paint_polygon and each
\* rectangle of corner_three_rects is closed (last vertex = first vertex), in
\* both orientations and for both sides.
C20_PolygonsClosed ==
    /\ (Built("restricted_area_polygon") \/ Built("paint_polygon"))
          => /\ Len(out) >= 2
             /\ out[Len(out)] = out[1]
    /\ Built("corner_three_rects")
          => \A k \in DOMAIN out :
                /\ Len(out[k]) >= 2
                /\ out[k][Len(out[k])] = out[k][1]

C20_Witness ==
    /\ Built("restricted_area_polygon")
    /\ spec.orientation = "v"
    /\ call.side = "r"
    /\ call.n = 3
    /\ Len(out) = 4
    /\ out[4] = out[1]
    /\ out[2] # out[1]
    /\ out[3] # out[1]

(***************************************************************************)
(* transform: half-court destinations.                                     *)
(***************************************************************************)

\* The point reflection of (px, py) through the point c
ReflectedThrough(px, py, c) == Pt(Sub(MulInt(2, c[1]), px), Sub(MulInt(2, c[2]), py))

\* The center the last call of transform derives from its origin
CallCenter == CenterCourt(call.origin, call.court_type)

\* Point i of the caller's input and of the returned arrays
PointIn(i) == Pt(x0[i], y0[i])

PointOut(i) == Pt(rx[i], ry[i])

\* The returned arrays hold one point for each input point
SameShape == Len(rx) = Len(x0) /\ Len(ry) = Len(y0)

\* C21: transform from h to hr (resp. hl) returns each point with x < Cx
\* (resp. x > Cx) as its point reflection (2Cx - x, 2Cy - y) and every other
\* point, the points with x = Cx included, unchanged; point by point.
C21_ConditionalReflection ==
    (pc = "called" /\ LegalTransformCall /\ EqualLengths
        /\ call.fr = "h" /\ call.to \in {"hr", "hl"})
        => /\ err = "none"
           /\ SameShape
           /\ \A i \in DOMAIN x0 :
                 PointOut(i) =
                    IF \/ call.to = "hr" /\ Lt(x0[i], CallCenter[1])
                       \/ call.to = "hl" /\ Gt(x0[i], CallCenter[1])
                    THEN ReflectedThrough(x0[i], y0[i], CallCenter)
                    ELSE PointIn(i)

\* Two points, one reflected and one on the center line left where it was
C21_Witness ==
    /\ pc = "called"
    /\ LegalTransformCall
    /\ call.fr = "h"
    /\ call.to = "hr"
    /\ call.origin = "top-left"
    /\ call.court_type = "nba"
    /\ Len(x0) = 2
    /\ EqualLengths
    /\ err = "none"
    /\ Lt(x0[1], CallCenter[1])
    /\ x0[2] = CallCenter[1]
    /\ PointOut(1) = ReflectedThrough(x0[1], y0[1], CallCenter)
    /\ PointOut(1) # PointIn(1)
    /\ PointOut(2) = PointIn(2)
    /\ PointOut(2) # ReflectedThrough(x0[2], y0[2], CallCenter)

HalfCourtTokens == {"hr", "hl", "vu", "vd"}

\* Point i of the input rotated into the family of the destination token
RotatedIn(i) ==
    IF Family(call.to) = "v" THEN Pt(Neg(y0[i]), x0[i]) ELSE Pt(y0[i], Neg(x0[i]))

\* The court center in the frame of the destination token
DestinationCenter ==
    IF Family(call.to) = "v" THEN Pt(Neg(CallCenter[2]), CallCenter[1]) ELSE CallCenter

\* The point p, in the frame of the destination, is on the half the token
\* call.to excludes
WrongSide(p) ==
    \/ call.to = "hr" /\ Lt(p[1], CallCenter[1])
    \/ call.to = "hl" /\ Gt(p[1], CallCenter[1])
    \/ call.to = "vu" /\ Lt(p[2], CallCenter[1])
    \/ call.to = "vd" /\ Gt(p[2], CallCenter[1])

\* Rotation into the destination family, then the conditional reflection of
\* both coordinates
RotateThenReflect(i) ==
    IF WrongSide(RotatedIn(i))
    THEN ReflectedThrough(RotatedIn(i)[1], RotatedIn(i)[2], DestinationCenter)
    ELSE RotatedIn(i)

\* C22 (as claimed): a transform across families to a half-court token
\* returns, for every point, its rotation into the destination family
\* followed by the reflection of both coordinates through the court center
\* when the rotated point lies on the wrong side.
C22_CrossFamilyReflection ==
    (pc = "called" /\ LegalTransformCall /\ EqualLengths
        /\ Family(call.fr) # Family(call.to) /\ call.to \in HalfCourtTokens)
        => /\ err = "none"
           /\ SameShape
           /\ \A i \in DOMAIN x0 : PointOut(i) = RotateThenReflect(i)

\* The token correspondence h <-> v, hr <-> vu, hl <-> vd, read from v to h
HToken(token) ==
    IF token = "v" THEN "h" ELSE IF token = "vu" THEN "hr" ELSE "hl"

\* transform on the input rotated back by (x, y) -> (y, -x), between the
\* h-family tokens that correspond to those of the last call
HCounterpart ==
    Transform(y0, NegArr(x0), HToken(call.fr), HToken(call.to), call.origin,
              call.court_type)

\* C23 (as claimed): between two v-family tokens transform returns the
\* rotation (x, y) -> (-y, x) of what it returns between the corresponding
\* h-family tokens for the points rotated back by (x, y) -> (y, -x); so
\* vd -> vu reflects as hl -> hr does.
C23_VFamilyIsRotatedHFamily ==
    (pc = "called" /\ LegalTransformCall /\ EqualLengths
        /\ Family(call.fr) = "v" /\ Family(call.to) = "v")
        => /\ err = HCounterpart.err
           /\ rx = NegArr(HCounterpart.ry)
           /\ ry = HCounterpart.rx

(***************************************************************************)
(* grid.py: the extent.                                                    *)
(***************************************************************************)
\* get_extent has been called on a legal CourtSpec
ExtentRead == pc = "called" /\ call.op = "get_extent" /\ LegalSpec(spec)

\* The half of the horizontal frame that the rotation (x, y) -> (-y, x)
\* takes to the half call.half of the vertical frame
HalfOfHorizontal ==
    IF call.half = "d" THEN "l" ELSE IF call.half = "u" THEN "r" ELSE "none"

\* The extent of the horizontal CourtSpec with the same league, units and
\* origin, for the corresponding half
HorizontalExtent == GetExtent(WithOrientation(spec, "h"), HalfOfHorizontal).out

\* The box (xmin, xmax, ymin, ymax) rotated by (x, y) -> (-y, x)
RotatedExtent(e) == <<Neg(e[4]), Neg(e[3]), e[1], e[2]>>

\* C24: get_extent returns the bounding box about spec.center.  Horizontal:
\* x spans [cx - w/2, cx + w/2] and y spans [cy - d/2, cy + d/2], half l
\* caps xmax at cx and half r raises xmin to cx.  Vertical: the x-span has
\* length d and the y-span length w, half d caps ymax at the mid-court y and
\* half u raises ymin to it, and the extent is the rotation (x, y) -> (-y, x)
\* of the horizontal extent.
C24_Extent ==
    ExtentRead =>
        LET w == SpecDims(spec)[1]
            d == SpecDims(spec)[2]
            c == SpecCenter(spec)
            mid == CenterFromOrigin(spec.origin, SpecDims(spec))[1]
        IN  /\ err = "none"
            /\ Len(out) = 4
            /\ spec.orientation = "h" =>
                  /\ out[1] = IF call.half = "r" THEN c[1] ELSE Sub(c[1], DivInt(w, 2))
                  /\ out[2] = IF call.half = "l" THEN c[1] ELSE Add(c[1], DivInt(w, 2))
                  /\ out[3] = Sub(c[2], DivInt(d, 2))
                  /\ out[4] = Add(c[2], DivInt(d, 2))
            /\ spec.orientation = "v" =>
                  /\ Sub(out[2], out[1]) = d
                  /\ call.half \notin {"d", "u"} => Sub(out[4], out[3]) = w
                  /\ call.half = "d" => out[4] = mid /\ out[3] = Sub(mid, DivInt(w, 2))
                  /\ call.half = "u" => out[3] = mid /\ out[4] = Add(mid, DivInt(w, 2))
                  /\ out = RotatedExtent(HorizontalExtent)

C24_Witness ==
    /\ ExtentRead
    /\ spec = CourtSpec("nba", "ft", "top-left", "v")
    /\ call.half = "d"
    /\ out = <<Zero, Num(50, 1), Zero, Num(47, 1)>>
    /\ out = RotatedExtent(HorizontalExtent)

(***************************************************************************)
(* transform: the side of the returned points.                             *)
(***************************************************************************)
\* C25 (as claimed): for fr different from to, after transform to hr every
\* returned point has x >= Cx, to hl x <= Cx, to vu y >= Cx and to vd
\* y <= Cx, where Cx is the x of the center the origin gives in the
\* horizontal frame.
C25_DestinationHalf ==
    (pc = "called" /\ LegalTransformCall /\ EqualLengths
        /\ call.fr # call.to /\ call.to \in HalfCourtTokens)
        => /\ err = "none"
           /\ SameShape
           /\ \A i \in DOMAIN rx :
                 /\ call.to = "hr" => Ge(rx[i], CallCenter[1])
                 /\ call.to = "hl" => Le(rx[i], CallCenter[1])
                 /\ call.to = "vu" => Ge(ry[i], CallCenter[1])
                 /\ call.to = "vd" => Le(ry[i], CallCenter[1])

(***************************************************************************)
(* zones.py: the zones against each other.                                 *)
(***************************************************************************)
\* What the mask zone returns for the points, the spec and the side of the
\* last call
SameCall(zone) == Mask(zone, x, y, spec, call.side)

\* C26 (as claimed): for every league and every side in {l, r, both}, no
\* point is flagged by both paint_mask and above_break_three_mask called with
\* the same spec and the same side.
C26_PaintAboveBreakDisjoint ==
    (LegalMaskCall /\ call.op = "paint_mask" /\ err = "none")
        => /\ SameCall("above_break_three_mask").err = "none"
           /\ \A i \in DOMAIN out :
                 ~(out[i] /\ SameCall("above_break_three_mask").out[i])

(***************************************************************************)
(* The zone builders against the zone masks, checked under SpecGeometry.   *)
(***************************************************************************)
\* C27 (as claimed): for every league, units, origin, orientation and side in
\* {l, r}, every vertex of paint_polygon(spec, side) is flagged by
\* paint_mask(spec, side) and every vertex of both rectangles of
\* corner_three_rects(spec, side) is flagged by corner_three_mask(spec, side).
C27_BuildersAgreeWithMasks ==
    /\ (Classified("paint_mask") /\ call.of = "paint_polygon"
            /\ call.points = "vertices")
          => \A i \in DOMAIN out : out[i]
    /\ (Classified("corner_three_mask") /\ call.of = "corner_three_rects"
            /\ call.points = "vertices")
          => \A i \in DOMAIN out : out[i]

(***************************************************************************)
(* The restricted area against the paint, checked under SpecGeometry.      *)
(***************************************************************************)
\* The parameters of spec place the restricted area inside the paint
FitsInPaint(p) ==
    /\ Le(Add(p["hoop_distance_from_edge"].v, p["charge_circle_radius"].v),
          p["outer_paint_dims"].v[1])
    /\ Le(p["charge_circle_radius"].v, DivInt(p["outer_paint_dims"].v[2], 2))

\* C28: for every league and every side the restricted area is contained in
\* the paint: every point flagged by restricted_area_mask(spec, side) is also
\* flagged by paint_mask(spec, side), and hoop_distance_from_edge +
\* charge_circle_radius <= paint length and charge_circle_radius <= half the
\* paint width.
C28_RestrictedInsidePaint ==
    /\ (pc # "ready" /\ LegalSpec(spec)) => FitsInPaint(SpecParams(spec))
    /\ Classified("restricted_area_mask")
          => \A i \in DOMAIN out : out[i] => SameCall("paint_mask").out[i]

\* Both ends and the tip of a left restricted arc, all flagged by both masks
C28_Witness ==
    /\ Classified("restricted_area_mask")
    /\ call.of = "restricted_area_polygon"
    /\ call.points = "vertices"
    /\ call.side = "l"
    /\ call.n = 3
    /\ \A i \in DOMAIN out : out[i] /\ SameCall("paint_mask").out[i]

(***************************************************************************)
(* transform: the center it reflects about, checked under Spec.            *)
(***************************************************************************)
\* CourtSpec(court_type, units, origin, 'h').center for the league and the
\* origin of the last call of transform
CallSpecCenter(units) ==
    SpecCenter(CourtSpec(call.court_type, units, call.origin, "h"))

\* C29: the center transform reflects about equals, for every league and
\* origin, CourtSpec(league, 'ft', origin, 'h').center, whatever the
\* coordinates passed in: every point a call from h to hr or hl moves is
\* returned as its reflection through that center.
C29_CenterOfTransform ==
    (pc = "called" /\ LegalTransformCall /\ EqualLengths) =>
        /\ CallCenter = CallSpecCenter("ft")
        /\ (call.fr = "h" /\ call.to \in {"hr", "hl"}) =>
              \A i \in DOMAIN x0 :
                  PointOut(i) # PointIn(i) =>
                      PointOut(i) = ReflectedThrough(x0[i], y0[i], CallSpecCenter("ft"))

\* A point reflected through the center of the feet-based CourtSpec with a
\* corner origin, which is not the center of the meters-based one
C29_Witness ==
    /\ pc = "called"
    /\ LegalTransformCall
    /\ EqualLengths
    /\ call.fr = "h"
    /\ call.to = "hl"
    /\ call.origin = "bottom-right"
    /\ call.court_type = "fiba"
    /\ err = "none"
    /\ CallSpecCenter("ft") # CallSpecCenter("m")
    /\ \E i \in DOMAIN x0 :
          /\ PointOut(i) # PointIn(i)
          /\ PointOut(i) = ReflectedThrough(x0[i], y0[i], CallSpecCenter("ft"))
          /\ PointOut(i) # ReflectedThrough(x0[i], y0[i], CallSpecCenter("m"))

(***************************************************************************)
(* The module-level parameter tables, checked under SpecTables.            *)
(***************************************************************************)
\* C30: the per-league parameter tables are never modified: whatever the
\* caller looked up, read from a CourtSpec or wrote into a mapping it was
\* given, the tables hold what the module defines, each lookup returns the
\* mapping the arguments determine (so a repeated lookup returns equal
\* values), and each property of a CourtSpec is the one its fields determine.
C30_TablesNeverModified ==
    /\ tables = CourtParamsTables
    /\ (pc = "called" /\ call.op = "lookup" /\ err = "none")
          => out = NewCourtParams[call.court_type][call.units]
    /\ pc = "read"
          => out = PropertyOfParams(call.op, NewCourtParams[spec.court_type][spec.units],
                                    spec)

\* The caller set court_dims[0] of the nba mapping in feet to 0.0 and looked
\* the nba parameters up in feet again: 94 ft, in the table and in the new
\* mapping
C30_Witness ==
    /\ pc = "called"
    /\ call.op = "lookup"
    /\ call.court_type = "nba"
    /\ call.units = "ft"
    /\ call.after = <<"nba", "ft", "court_dims", 1>>
    /\ err = "none"
    /\ out["court_dims"].v[1] = Num(94, 1)
    /\ tables["nba"]["court_dims"].v[1] = Num(94, 1)

====
